---- MODULE Spec2Model ----
(***************************************************************************)
(* The comment-to-DM pipeline of instagram-auto-dm (package main):         *)
(* webhook POST handlers (one goroutine per request) run processComment,   *)
(* which matches keywords, asks the dm_logs table whether the              *)
(* (user, post) pair was served, and sends a DMJob on the buffered channel *)
(* dmQueue; the single dmWorker goroutine receives jobs, sleeps DMDelay,   *)
(* calls sendDMWithRetry and writes the outcome with logDM.                *)
(*                                                                         *)
(* Strings the code inspects (comment text, KEYWORDS, MAX_RETRIES) are     *)
(* sequences of one-character strings, so that ToLower, Contains, Split    *)
(* and TrimSpace are computed; identifiers (user, post, comment ids) are   *)
(* opaque strings.  Durations are in whole seconds.                        *)
(***************************************************************************)
EXTENDS Integers, Sequences, FiniteSets, TLC

VARIABLES
    config,      \* Config built by loadConfig: Keywords, MaxRetries, RetryBackoffBase
    dm_logs,     \* the rows of table dm_logs
    now,         \* the database clock read by CURRENT_TIMESTAMP
    dmQueue,     \* the buffered channel of DMJob
    delivered,   \* history: changes of the bodies delivered so far
    hpc,         \* per request: position of its handler goroutine
    left,        \* per request: changes of the body the loop has not reached
    cur,         \* per request: the change the loop read last
    verdict,     \* history, per request: what became of the change read last
    queryFailed, \* history, per request: isDuplicate's query for that change failed
    wpc,         \* position of the dmWorker goroutine
    job,         \* the job dmWorker holds
    attempt,     \* sendDMWithRetry: loop variable attempt
    last,        \* sendDMWithRetry: variable last
    ret,         \* the error sendDMWithRetry returned to dmWorker
    nAttempts,   \* history: sendDM calls made for the job held
    sleeps,      \* history: backoff sleeps made for the job held, in order
    lastResp,    \* history: the response the latest sendDM call received
    dispatched,  \* history: per (user, post), jobs for which sendDM was called
    capacity,    \* cap(dmQueue): the capacity the channel was made with
    verifyToken, \* config.VerifyToken
    handshake,   \* the latest GET /webhook exchange: its query and its answer
    response,    \* per request: the answer webhookPOSTHandler wrote
    outstanding, \* history: jobs sent on dmQueue and not yet through logDM, oldest first
    waited,      \* history, per job of outstanding whose own time.Sleep(DMDelay)
                 \* is still to come: a whole such sleep of the worker has passed
                 \* since the job was sent (FALSE once its own sleep is over)
    limiter,     \* the RateLimiter: its map requests
    clock,       \* time.Now() at the latest call of Allow
    granted,     \* history, per key: the times at which Allow returned true
    lastAllow,   \* history: the latest call of Allow, its result and its number
    writers      \* per caller of logDM: its statement in progress in the database

vars == <<config, dm_logs, now, dmQueue, delivered, hpc, left, cur, verdict,
          queryFailed, wpc, job,
          attempt, last, ret, nAttempts, sleeps, lastResp, dispatched,
          capacity, outstanding, waited, verifyToken, handshake, response,
          limiter, clock, granted, lastAllow, writers>>

lvars == <<limiter, clock, granted, lastAllow>>
cvars == <<config, capacity, verifyToken, handshake, lvars, writers>>
hvars == <<delivered, hpc, left, cur, verdict, queryFailed, response>>
wvars == <<wpc, job, attempt, last, ret, nAttempts, sleeps, lastResp, dispatched>>
dbvars == <<dm_logs, now>>
ovars == <<outstanding, waited>>

-----------------------------------------------------------------------------
(* Bounds of the model *)

\* change entries delivered in one run, over all bodies
MaxChanges == 2
\* capacity of dmQueue in the model; the program allocates make(chan DMJob, 100)
QueueCap == 1

\* capacity of dmQueue where the order of queued jobs is examined
QueueCapFifo == 2

\* maxRetries := 3
DefaultMaxRetries == 3
\* RetryBackoffBase: 2 * time.Second
BackoffBaseSeconds == 2

\* the webhook POST requests of a run: two, whose handlers may overlap
Requests == {1, 2}

-----------------------------------------------------------------------------
(* strings *)

\* strings.ToLower on the characters the model uses
LowerChar(c) ==
    CASE c = "D" -> "d"
      [] c = "M" -> "m"
      [] c = "X" -> "x"
      [] OTHER -> c

ToLower(s) == [i \in 1..Len(s) |-> LowerChar(s[i])]

\* strings.Contains(s, sub): true for every s when sub is empty
Contains(s, sub) ==
    \E i \in 0..(Len(s) - Len(sub)) : SubSeq(s, i + 1, i + Len(sub)) = sub

RECURSIVE TrimLeft(_)
TrimLeft(s) == IF s # <<>> /\ Head(s) = " " THEN TrimLeft(Tail(s)) ELSE s

RECURSIVE TrimRight(_)
TrimRight(s) ==
    IF s # <<>> /\ s[Len(s)] = " " THEN TrimRight(SubSeq(s, 1, Len(s) - 1)) ELSE s

\* strings.TrimSpace
TrimSpace(s) == TrimRight(TrimLeft(s))

\* strings.Split(s, ","): always at least one element, "" splits into <<"">>
RECURSIVE Split(_)
Split(s) ==
    IF \E i \in 1..Len(s) : s[i] = ","
    THEN LET i == CHOOSE k \in 1..Len(s) :
                     s[k] = "," /\ \A m \in 1..(k - 1) : s[m] # ","
         IN  <<SubSeq(s, 1, i - 1)>> \o Split(SubSeq(s, i + 1, Len(s)))
    ELSE <<s>>

-----------------------------------------------------------------------------
(* configuration *)

IsDigit(c) == c \in {"0", "1", "2", "3", "4"}

DigitVal(c) ==
    CASE c = "0" -> 0
      [] c = "1" -> 1
      [] c = "2" -> 2
      [] c = "3" -> 3
      [] OTHER -> 4

RECURSIVE ScanDigits(_, _)
ScanDigits(s, acc) ==
    IF s # <<>> /\ IsDigit(Head(s))
    THEN ScanDigits(Tail(s), 10 * acc + DigitVal(Head(s)))
    ELSE acc

\* fmt.Sscanf(mr, "%d", &n): leading spaces skipped, an optional sign, then at
\* least one digit; anything after the digits is left unread.  ok = FALSE when
\* nothing was stored.
Sscanf(mr) ==
    LET t    == TrimLeft(mr)
        sign == t # <<>> /\ Head(t) \in {"-", "+"}
        d    == IF sign THEN Tail(t) ELSE t
    IN  IF d # <<>> /\ IsDigit(Head(d))
        THEN [ok |-> TRUE,
              val |-> IF sign /\ Head(t) = "-" THEN 0 - ScanDigits(d, 0)
                      ELSE ScanDigits(d, 0)]
        ELSE [ok |-> FALSE, val |-> 0]

\* values of the environment variable KEYWORDS ("" when unset)
KeywordsEnvs ==
    { <<"d", "m">>,
      <<"D", "M", ",", " ", "m">> }

\* values of the environment variable MAX_RETRIES ("" when unset)
MaxRetriesEnvs ==
    { <<>>, <<"1">>, <<"-", "1">> }

loadConfig(keywordsEnv, maxRetriesEnv) ==
    LET parts == Split(keywordsEnv)
        sc    == Sscanf(maxRetriesEnv)
    IN  [Keywords |-> [i \in 1..Len(parts) |-> TrimSpace(ToLower(parts[i]))],
         MaxRetries |-> IF maxRetriesEnv # <<>> /\ sc.ok THEN sc.val
                        ELSE DefaultMaxRetries,
         RetryBackoffBase |-> BackoffBaseSeconds]


-----------------------------------------------------------------------------
(* webhook bodies *)

\* CommentData{ID, MediaID, Text, From.ID}: the comments the platform reports.
\* "c1" and "c2" are two comments of one user on one post; "c3" is by another
\* user on that post; "c4" has an empty text.
Comments ==
    { [ID |-> "c1", MediaID |-> "p1", From |-> "u1", Text |-> <<"D", "m">>],
      [ID |-> "c2", MediaID |-> "p1", From |-> "u1", Text |-> <<"x", "M">>],
      [ID |-> "c3", MediaID |-> "p1", From |-> "u2", Text |-> <<"d", "m", "x">>],
      [ID |-> "c4", MediaID |-> "p2", From |-> "u1", Text |-> <<>>] }

Users == {c.From : c \in Comments}
Posts == {c.MediaID : c \in Comments}
Pairs == Users \X Posts

\* what a change carries when its "value" is not a JSON object
NoValue == [ID |-> "", MediaID |-> "", From |-> "", Text |-> <<>>]

\* a change entry of a body: its field, whether its "value" is a JSON object
\* (change["value"].(map[string]interface{}) succeeds), and that value
Changes ==
    [field : {"comments"}, object : {TRUE}, value : Comments]
        \cup { [field |-> "mentions", object |-> TRUE,
                value |-> [ID |-> "c1", MediaID |-> "p1", From |-> "u1",
                           Text |-> <<"D", "m">>]],
               [field |-> "comments", object |-> FALSE, value |-> NoValue] }

NoChange == [field |-> "", object |-> FALSE, value |-> NoValue]

\* a body json.Decode rejects
Malformed == [decodes |-> FALSE, changes |-> 0]

\* the bodies a request can carry: one that decodes, with at most n changes
\* over all its entries, or one that does not decode.  A body is read by its
\* own handler alone, in order, so the content of each change is drawn when
\* the handler's loop reaches it.
Bodies(n) == [decodes : {TRUE}, changes : 0..n] \cup {Malformed}

-----------------------------------------------------------------------------
(* the dm_logs table *)

\* SELECT COUNT(*) FROM dm_logs WHERE user_id = $1 AND post_id = $2
CountRows(table, userID, postID) ==
    Cardinality({r \in table : r.user_id = userID /\ r.post_id = postID})

\* variant of isDuplicate: a failed query counts as a duplicate
isDuplicateFailClosed(table, userID, postID, queryErr) ==
    queryErr \/ CountRows(table, userID, postID) > 0

\* variant of isDuplicate: "count > 1"
isDuplicateOffByOne(table, userID, postID, queryErr) ==
    ~queryErr /\ CountRows(table, userID, postID) > 1

\* variant of isDuplicate: the query adds "AND status = 'sent'"
isDuplicateSentOnly(table, userID, postID, queryErr) ==
    /\ ~queryErr
    /\ \E r \in table :
          r.user_id = userID /\ r.post_id = postID /\ r.status = "sent"

\* isDuplicate: queryErr is whether QueryRow(...).Scan returned an error
isDuplicate(table, userID, postID, queryErr) ==
    ~queryErr /\ CountRows(table, userID, postID) > 0

\* variant of Upsert: the inserted row starts with retry_count 1
UpsertCountsFromOne(table, ts, j, status, errMsg) ==
    IF \E r \in table : r.user_id = j.UserID /\ r.post_id = j.PostID
    THEN { IF r.user_id = j.UserID /\ r.post_id = j.PostID
           THEN [r EXCEPT !.retry_count = r.retry_count + 1,
                          !.status = status,
                          !.error_message = errMsg,
                          !.sent_at = ts]
           ELSE r : r \in table }
    ELSE table \cup { [user_id |-> j.UserID, post_id |-> j.PostID,
                      comment_id |-> j.CommentID, sent_at |-> ts,
                      status |-> status, retry_count |-> 1,
                      error_message |-> errMsg] }

\* variant of Upsert: a plain INSERT into a table without the UNIQUE constraint
UpsertAlwaysInsert(table, ts, j, status, errMsg) ==
    table \cup { [user_id |-> j.UserID, post_id |-> j.PostID,
                  comment_id |-> j.CommentID, sent_at |-> ts,
                  status |-> status, retry_count |-> 0,
                  error_message |-> errMsg] }

\* variant of Upsert: the update also sets comment_id = $3
UpsertOverwritesComment(table, ts, j, status, errMsg) ==
    IF \E r \in table : r.user_id = j.UserID /\ r.post_id = j.PostID
    THEN { IF r.user_id = j.UserID /\ r.post_id = j.PostID
           THEN [r EXCEPT !.retry_count = r.retry_count + 1,
                          !.comment_id = j.CommentID,
                          !.status = status,
                          !.error_message = errMsg,
                          !.sent_at = ts]
           ELSE r : r \in table }
    ELSE table \cup { [user_id |-> j.UserID, post_id |-> j.PostID,
                      comment_id |-> j.CommentID, sent_at |-> ts,
                      status |-> status, retry_count |-> 0,
                      error_message |-> errMsg] }

\* INSERT INTO dm_logs ... ON CONFLICT (user_id, post_id) DO UPDATE SET
\* retry_count = dm_logs.retry_count + 1, status, error_message, sent_at.
\* The inserted row takes retry_count from DEFAULT 0; ts is CURRENT_TIMESTAMP.
\* Column id (SERIAL) is read by nothing and is left out.
Upsert(table, ts, j, status, errMsg) ==
    IF \E r \in table : r.user_id = j.UserID /\ r.post_id = j.PostID
    THEN { IF r.user_id = j.UserID /\ r.post_id = j.PostID
           THEN [r EXCEPT !.retry_count = r.retry_count + 1,
                          !.status = status,
                          !.error_message = errMsg,
                          !.sent_at = ts]
           ELSE r : r \in table }
    ELSE table \cup { [user_id |-> j.UserID, post_id |-> j.PostID,
                      comment_id |-> j.CommentID, sent_at |-> ts,
                      status |-> status, retry_count |-> 0,
                      error_message |-> errMsg] }

-----------------------------------------------------------------------------
(* the messaging endpoint *)

NoError == <<>>

\* bodies of a response, as io.ReadAll(resp.Body) gives them: whether
\* json.Unmarshal finds an object with an "error" object in it, the "code" and
\* "error_subcode" of that object, and the words of the body as string(b)
\* prints them.  The first is the platform's window-expired error, the second
\* another error of code 10 whose message speaks of a window, the third is
\* not JSON, the last is empty.
BodyWindowExpired ==
    [object |-> TRUE, code |-> 10, subcode |-> 2534022,
     text |-> <<"message", "cannot", "be", "sent">>]
BodyOutsideWindow ==
    [object |-> TRUE, code |-> 10, subcode |-> 2018278,
     text |-> <<"outside", "allowed", "window">>]
BodyPlain ==
    [object |-> FALSE, code |-> 0, subcode |-> 0,
     text |-> <<"Internal", "Server", "Error">>]
BodyEmpty == [object |-> FALSE, code |-> 0, subcode |-> 0, text |-> <<>>]

ResponseBodies == {BodyWindowExpired, BodyOutsideWindow, BodyPlain, BodyEmpty}

\* the tests sendDM makes on the parsed body: "error" is an object, its code
\* is 10 and its error_subcode is 2534022
WindowExpired(body) ==
    body.object /\ body.code = 10 /\ body.subcode = 2534022

\* what one call of client.Do produces in the pipeline: a transport error, or
\* a response with a status code and a body
Responses ==
    { [transport |-> TRUE,  code |-> 0,   body |-> BodyEmpty],
      [transport |-> FALSE, code |-> 200, body |-> BodyEmpty],
      [transport |-> FALSE, code |-> 201, body |-> BodyEmpty],
      [transport |-> FALSE, code |-> 403, body |-> BodyWindowExpired],
      [transport |-> FALSE, code |-> 500, body |-> BodyPlain] }

NoResponse == [transport |-> FALSE, code |-> 0, body |-> BodyEmpty]

ErrTransport == <<"transport_error">>
ErrWindow == <<"24_hour_messaging", "window", "expired">>

\* fmt.Errorf("api_error_%d: %s", resp.StatusCode, string(b))
ErrApi(code, body) == <<"api_error", ToString(code)>> \o body.text

\* variant of sendDM: every status from 200 to 299 is accepted
sendDMAccepts2xx(resp) ==
    IF resp.transport THEN ErrTransport
    ELSE IF resp.code < 200 \/ resp.code > 299
         THEN IF WindowExpired(resp.body) THEN ErrWindow
              ELSE ErrApi(resp.code, resp.body)
         ELSE NoError

\* variant of sendDM: the body of a refused call is not inspected
sendDMGenericError(resp) ==
    IF resp.transport THEN ErrTransport
    ELSE IF resp.code # 200 /\ resp.code # 201
         THEN ErrApi(resp.code, resp.body)
         ELSE NoError

\* sendDM: the error it returns for a response, NoError for success
sendDM(resp) ==
    IF resp.transport THEN ErrTransport
    ELSE IF resp.code # 200 /\ resp.code # 201
         THEN IF WindowExpired(resp.body) THEN ErrWindow
              ELSE ErrApi(resp.code, resp.body)
         ELSE NoError

\* variant of Backoff: the sleep grows by the base with every retry
BackoffLinear(base, a) == base * a

\* variant of Backoff: the shift is by attempt
BackoffFromAttempt(base, a) == base * 2 ^ a

\* backoff := config.RetryBackoffBase * time.Duration(1<<uint(attempt-1))
Backoff(base, a) == base * 2 ^ (a - 1)


-----------------------------------------------------------------------------
(* the /webhook handlers' answers *)

\* w.WriteHeader(status) and w.Write(body)
Answer(status, body) == [status |-> status, body |-> body]

\* no answer written yet
NoAnswer == [status |-> 0, body |-> ""]

\* values of the environment variable VERIFY_TOKEN ("" when unset)
VerifyTokenEnvs == {"", "secret", "other"}

\* values of a query parameter of GET /webhook; Query().Get gives "" for an
\* absent one
Modes == {"", "subscribe", "Subscribe", "unsubscribe"}
Tokens == {"", "secret", "Secret", "wrong", "DDYTDTYF"}
Challenges == {"", "abc123", "42"}

NoHandshake ==
    [route |-> "", mode |-> "", token |-> "", challenge |-> "", answer |-> NoAnswer]

\* variant of webhookGETHandler: without the test token != ""
webhookGETHandlerNoEmptyTest(mode, token, challenge, configured) ==
    IF mode = "subscribe" /\ token = configured
    THEN Answer(200, challenge)
    ELSE Answer(403, "")

\* webhookGETHandler: the answer to a verification request
webhookGETHandler(mode, token, challenge, configured) ==
    IF mode = "subscribe" /\ token # "" /\ token = configured
    THEN Answer(200, challenge)
    ELSE Answer(403, "")

\* handleWebhookVerification, which commentWebhookHandler calls for a GET on
\* /api/accounts/:account_id/webhook/comments: the token is compared with a
\* literal of the program text
handleWebhookVerification(mode, token, challenge) ==
    IF mode = "subscribe" /\ token = "DDYTDTYF"
    THEN Answer(200, challenge)
    ELSE Answer(403, "")

-----------------------------------------------------------------------------
(* callers of logDM *)

\* goroutines that call logDM at the same time
Writers == {1, 2}

\* statements the callers issue in a run
MaxStatements == 3

\* a caller with no statement in progress
IdleWriter ==
    [pc |-> "idle", user |-> "", post |-> "", comment |-> "", status |-> "",
     err |-> NoError, ts |-> 0, raced |-> FALSE]

\* the row "INSERT INTO dm_logs (user_id, post_id, comment_id, status,
\* error_message) VALUES ($1, $2, $3, $4, $5)" inserts: sent_at and
\* retry_count take their defaults
InsertedRow(ts, userID, postID, commentID, status, errMsg) ==
    [user_id |-> userID, post_id |-> postID, comment_id |-> commentID,
     sent_at |-> ts, status |-> status, retry_count |-> 0,
     error_message |-> errMsg]

-----------------------------------------------------------------------------
(* the rate limiter *)

\* "if len(valid) >= 5": the calls allowed per minute
RateLimit == 5

\* one minute, in ticks of the clock
MinuteTicks == 2

\* calls of Allow in a run
MaxCalls == 7

\* the ticks that pass between one call of Allow and the next (a longer pause
\* between two calls with one key has calls with the other key in between)
Gaps == {0, 1}

\* NewRateLimiter: the map is empty; a key without entry reads as the nil slice
NewRateLimiter == [requests |-> [k \in Users |-> <<>>]]

\* no call of Allow made yet
NoCall == [key |-> "", ok |-> FALSE, n |-> 0]

\* the loop of Allow: the entries with t.After(cutoff), in order
Valid(requests, cutoff) == SelectSeq(requests, LAMBDA t : t > cutoff)

\* variant of Allow: the limit is tested with "len(valid) > 5"
AllowOffByOne(rl, key, t) ==
    LET valid == Valid(rl.requests[key], t - MinuteTicks)
    IN  IF Len(valid) > RateLimit
        THEN [ok |-> FALSE, rl |-> rl]
        ELSE [ok |-> TRUE,
              rl |-> [rl EXCEPT !.requests[key] = Append(valid, t)]]

\* Allow(key) at time t on the limiter rl: its result and the limiter after it
Allow(rl, key, t) ==
    LET valid == Valid(rl.requests[key], t - MinuteTicks)
    IN  IF Len(valid) >= RateLimit
        THEN [ok |-> FALSE, rl |-> rl]
        ELSE [ok |-> TRUE,
              rl |-> [rl EXCEPT !.requests[key] = Append(valid, t)]]

-----------------------------------------------------------------------------
(* processComment *)

\* variant of Match: the arguments of strings.Contains are swapped
MatchReversed(text, keywords) ==
    \E i \in 1..Len(keywords) : Contains(keywords[i], ToLower(text))

\* variant of the keyword loop of processComment: an empty keyword is passed
\* over
MatchSkipsEmpty(text, keywords) ==
    \E i \in 1..Len(keywords) :
        keywords[i] # <<>> /\ Contains(ToLower(text), keywords[i])

\* the keyword loop of processComment: some configured keyword is contained
\* in the lower-cased text
Match(text, keywords) ==
    \E i \in 1..Len(keywords) : Contains(ToLower(text), keywords[i])

\* variant of NewJob: UserID is taken from the comment's id
NewJobFromCommentID(c) ==
    [UserID |-> c.ID, PostID |-> c.MediaID, CommentID |-> c.ID, Text |-> c.Text]

\* the DMJob processComment builds (Username and Timestamp are read by log
\* lines only and are left out)
NewJob(c) ==
    [UserID |-> c.From, PostID |-> c.MediaID, CommentID |-> c.ID, Text |-> c.Text]

NoJob == [UserID |-> "", PostID |-> "", CommentID |-> "", Text |-> <<>>]

\* the state after main has loaded the configuration from an environment with
\* KEYWORDS in kwEnvs, MAX_RETRIES in mrEnvs and VERIFY_TOKEN in tokenEnvs,
\* opened the database, whose
\* table dm_logs is one of tables (CREATE TABLE IF NOT EXISTS keeps the rows of
\* earlier runs), made the channel with capacity n and started dmWorker; the
\* requests in live are still to come
StartToken(kwEnvs, mrEnvs, live, tables, n, tokenEnvs) ==
    /\ config \in {loadConfig(k, m) : k \in kwEnvs, m \in mrEnvs}
    /\ capacity = n
    /\ outstanding = <<>>
    /\ waited = <<>>
    /\ verifyToken \in tokenEnvs
    /\ handshake = NoHandshake
    /\ limiter = NewRateLimiter
    /\ clock = 0
    /\ granted = [k \in Users |-> <<>>]
    /\ lastAllow = NoCall
    /\ writers = [w \in Writers |-> IdleWriter]
    /\ response = [h \in Requests |-> NoAnswer]
    /\ dm_logs \in tables
    /\ now = 0
    /\ dmQueue = <<>>
    /\ delivered = 0
    /\ hpc = [h \in Requests |-> IF h \in live THEN "idle" ELSE "done"]
    /\ left = [h \in Requests |-> 0]
    /\ cur = [h \in Requests |-> NoChange]
    /\ verdict = [h \in Requests |-> "none"]
    /\ queryFailed = [h \in Requests |-> FALSE]
    /\ wpc = "recv"
    /\ job = NoJob
    /\ attempt = 0
    /\ last = NoError
    /\ ret = NoError
    /\ nAttempts = 0
    /\ sleeps = <<>>
    /\ lastResp = NoResponse
    /\ dispatched = [p \in Pairs |-> 0]

\* the start with VERIFY_TOKEN=secret
StartCap(kwEnvs, mrEnvs, live, tables, n) ==
    StartToken(kwEnvs, mrEnvs, live, tables, n, {"secret"})

\* the start with a channel of capacity QueueCap
StartWith(kwEnvs, mrEnvs, live, tables) ==
    StartCap(kwEnvs, mrEnvs, live, tables, QueueCap)

\* the start of a process on a database without rows
Start(kwEnvs, mrEnvs, live) == StartWith(kwEnvs, mrEnvs, live, {{}})

\* variant of HandlerStart: a body that does not decode is answered 400, as
\* http.Error(w, "Bad request", http.StatusBadRequest) does
HandlerStartBadRequest(h) ==
    /\ hpc[h] = "idle"
    /\ \A g \in Requests : g < h => hpc[g] # "idle"
    /\ \E body \in Bodies(MaxChanges - delivered) :
          /\ delivered' = delivered + body.changes
          /\ IF ~body.decodes
             THEN /\ hpc' = [hpc EXCEPT ![h] = "done"]
                  /\ response' = [response EXCEPT ![h] = Answer(400, "Bad request")]
                  /\ verdict' = [verdict EXCEPT ![h] = "undecoded"]
                  /\ UNCHANGED left
             ELSE /\ hpc' = [hpc EXCEPT ![h] = "loop"]
                  /\ left' = [left EXCEPT ![h] = body.changes]
                  /\ UNCHANGED <<response, verdict>>
    /\ UNCHANGED <<cur, queryFailed, cvars, ovars, dbvars, dmQueue, wvars>>

\* webhookPOSTHandler starts for request h; a body that does not decode is
\* answered at once
HandlerStart(h) ==
    /\ hpc[h] = "idle"
    /\ \A g \in Requests : g < h => hpc[g] # "idle"
    /\ \E body \in Bodies(MaxChanges - delivered) :
          /\ delivered' = delivered + body.changes
          /\ IF ~body.decodes
             THEN /\ hpc' = [hpc EXCEPT ![h] = "done"]
                  /\ response' = [response EXCEPT ![h] = Answer(200, "")]
                  /\ verdict' = [verdict EXCEPT ![h] = "undecoded"]
                  /\ UNCHANGED left
             ELSE /\ hpc' = [hpc EXCEPT ![h] = "loop"]
                  /\ left' = [left EXCEPT ![h] = body.changes]
                  /\ UNCHANGED <<response, verdict>>
    /\ UNCHANGED <<cur, queryFailed, cvars, ovars, dbvars, dmQueue, wvars>>

\* the loops over entries and changes are over: the handler answers
HandlerFinish(h) ==
    /\ hpc[h] = "loop"
    /\ left[h] = 0
    /\ hpc' = [hpc EXCEPT ![h] = "done"]
    /\ response' = [response EXCEPT ![h] = Answer(200, "")]
    /\ cur' = [cur EXCEPT ![h] = NoChange]
    /\ verdict' = [verdict EXCEPT ![h] = "none"]
    /\ queryFailed' = [queryFailed EXCEPT ![h] = FALSE]
    /\ UNCHANGED <<delivered, left, cvars, ovars, dbvars, dmQueue, wvars>>

\* a change whose field is not "comments", or whose value is not a JSON
\* object, is passed over
HandlerSkipField(h) ==
    /\ hpc[h] = "loop"
    /\ left[h] > 0
    /\ \E ch \in Changes :
          /\ ch.field # "comments" \/ ~ch.object
          /\ cur' = [cur EXCEPT ![h] = ch]
    /\ left' = [left EXCEPT ![h] = left[h] - 1]
    /\ verdict' = [verdict EXCEPT ![h] = "skipped"]
    /\ queryFailed' = [queryFailed EXCEPT ![h] = FALSE]
    /\ UNCHANGED <<delivered, response, hpc, cvars, ovars, dbvars, dmQueue, wvars>>

\* processComment up to "if !match { return }"
HandlerNoMatch(h) ==
    /\ hpc[h] = "loop"
    /\ left[h] > 0
    /\ \E ch \in Changes :
          /\ ch.field = "comments" /\ ch.object
          /\ ~Match(ch.value.Text, config.Keywords)
          /\ cur' = [cur EXCEPT ![h] = ch]
    /\ left' = [left EXCEPT ![h] = left[h] - 1]
    /\ verdict' = [verdict EXCEPT ![h] = "nomatch"]
    /\ queryFailed' = [queryFailed EXCEPT ![h] = FALSE]
    /\ UNCHANGED <<delivered, response, hpc, cvars, ovars, dbvars, dmQueue, wvars>>

\* variant of HandlerMatch: processComment is called for every change, whatever
\* its field
HandlerMatchAnyField(h) ==
    /\ hpc[h] = "loop"
    /\ left[h] > 0
    /\ \E ch \in Changes :
          /\ ch.object
          /\ Match(ch.value.Text, config.Keywords)
          /\ cur' = [cur EXCEPT ![h] = ch]
    /\ left' = [left EXCEPT ![h] = left[h] - 1]
    /\ verdict' = [verdict EXCEPT ![h] = "matched"]
    /\ hpc' = [hpc EXCEPT ![h] = "dedup"]
    /\ queryFailed' = [queryFailed EXCEPT ![h] = FALSE]
    /\ UNCHANGED <<delivered, response, cvars, ovars, dbvars, dmQueue, wvars>>

\* processComment with a matching text: it goes on to the duplicate check
HandlerMatch(h) ==
    /\ hpc[h] = "loop"
    /\ left[h] > 0
    /\ \E ch \in Changes :
          /\ ch.field = "comments" /\ ch.object
          /\ Match(ch.value.Text, config.Keywords)
          /\ cur' = [cur EXCEPT ![h] = ch]
    /\ left' = [left EXCEPT ![h] = left[h] - 1]
    /\ verdict' = [verdict EXCEPT ![h] = "matched"]
    /\ hpc' = [hpc EXCEPT ![h] = "dedup"]
    /\ queryFailed' = [queryFailed EXCEPT ![h] = FALSE]
    /\ UNCHANGED <<delivered, response, cvars, ovars, dbvars, dmQueue, wvars>>

\* variant of HandlerDedup: a failed query ends the request with
\* http.Error(w, "Internal error", http.StatusInternalServerError)
HandlerDedupSurfacesError(h) ==
    /\ hpc[h] = "dedup"
    /\ \E queryErr \in BOOLEAN :
          /\ queryFailed' = [queryFailed EXCEPT ![h] = queryErr]
          /\ IF queryErr
             THEN /\ hpc' = [hpc EXCEPT ![h] = "done"]
                  /\ response' = [response EXCEPT ![h] = Answer(500, "Internal error")]
                  /\ UNCHANGED verdict
             ELSE /\ UNCHANGED response
                  /\ IF isDuplicate(dm_logs, cur[h].value.From, cur[h].value.MediaID,
                                    queryErr)
                     THEN /\ hpc' = [hpc EXCEPT ![h] = "loop"]
                          /\ verdict' = [verdict EXCEPT ![h] = "duplicate"]
                     ELSE /\ hpc' = [hpc EXCEPT ![h] = "send"]
                          /\ UNCHANGED verdict
    /\ UNCHANGED <<delivered, left, cur, cvars, ovars, dbvars, dmQueue, wvars>>

\* variant of HandlerDedup: the check also drops an event whose pair has a job
\* that was sent on dmQueue and is not yet logged
HandlerDedupSeesQueue(h) ==
    /\ hpc[h] = "dedup"
    /\ \E queryErr \in BOOLEAN :
          /\ queryFailed' = [queryFailed EXCEPT ![h] = queryErr]
          /\ IF \/ isDuplicate(dm_logs, cur[h].value.From, cur[h].value.MediaID,
                               queryErr)
                \/ \E i \in 1..Len(outstanding) :
                      /\ outstanding[i].UserID = cur[h].value.From
                      /\ outstanding[i].PostID = cur[h].value.MediaID
             THEN /\ hpc' = [hpc EXCEPT ![h] = "loop"]
                  /\ verdict' = [verdict EXCEPT ![h] = "duplicate"]
             ELSE /\ hpc' = [hpc EXCEPT ![h] = "send"]
                  /\ UNCHANGED verdict
    /\ UNCHANGED <<delivered, response, left, cur, cvars, ovars, dbvars,
                   dmQueue, wvars>>

\* variant of HandlerDedup: the handler records the comment it drops as a
\* duplicate in the pair's row
HandlerDedupLogsDrop(h) ==
    /\ hpc[h] = "dedup"
    /\ \E queryErr \in BOOLEAN :
          /\ queryFailed' = [queryFailed EXCEPT ![h] = queryErr]
          /\ IF isDuplicate(dm_logs, cur[h].value.From, cur[h].value.MediaID,
                            queryErr)
             THEN /\ hpc' = [hpc EXCEPT ![h] = "loop"]
                  /\ verdict' = [verdict EXCEPT ![h] = "duplicate"]
                  /\ now' = now + 1
                  /\ dm_logs' = Upsert(dm_logs, now', NewJob(cur[h].value),
                                       "duplicate", NoError)
             ELSE /\ hpc' = [hpc EXCEPT ![h] = "send"]
                  /\ UNCHANGED <<verdict, dbvars>>
    /\ UNCHANGED <<delivered, response, left, cur, cvars, ovars, dmQueue, wvars>>

\* "if isDuplicate(c.From.ID, c.MediaID) { return }": one query of dm_logs,
\* which may fail
HandlerDedup(h) ==
    /\ hpc[h] = "dedup"
    /\ \E queryErr \in BOOLEAN :
          /\ queryFailed' = [queryFailed EXCEPT ![h] = queryErr]
          /\ IF isDuplicate(dm_logs, cur[h].value.From, cur[h].value.MediaID,
                            queryErr)
             THEN /\ hpc' = [hpc EXCEPT ![h] = "loop"]
                  /\ verdict' = [verdict EXCEPT ![h] = "duplicate"]
             ELSE /\ hpc' = [hpc EXCEPT ![h] = "send"]
                  /\ UNCHANGED verdict
    /\ UNCHANGED <<delivered, response, left, cur, cvars, ovars, dbvars,
                   dmQueue, wvars>>

\* variant of HandlerSend: the handler writes the pair's row, with status
\* "queued", in the step that sends the job
HandlerSendReserves(h) ==
    /\ hpc[h] = "send"
    /\ Len(dmQueue) < capacity
    /\ dmQueue' = Append(dmQueue, NewJob(cur[h].value))
    /\ outstanding' = Append(outstanding, NewJob(cur[h].value))
    /\ waited' = Append(waited, FALSE)
    /\ hpc' = [hpc EXCEPT ![h] = "loop"]
    /\ verdict' = [verdict EXCEPT ![h] = "queued"]
    /\ now' = now + 1
    /\ dm_logs' = Upsert(dm_logs, now', NewJob(cur[h].value), "queued", NoError)
    /\ UNCHANGED <<delivered, response, left, cur, queryFailed, cvars, wvars>>

\* variant of HandlerSend: "select { case dmQueue <- job: default: }", a job
\* that finds the channel full is dropped
HandlerSendOrDrop(h) ==
    /\ hpc[h] = "send"
    /\ IF Len(dmQueue) < capacity
       THEN /\ dmQueue' = Append(dmQueue, NewJob(cur[h].value))
            /\ outstanding' = Append(outstanding, NewJob(cur[h].value))
            /\ waited' = Append(waited, FALSE)
            /\ verdict' = [verdict EXCEPT ![h] = "queued"]
       ELSE /\ UNCHANGED <<dmQueue, ovars>>
            /\ verdict' = [verdict EXCEPT ![h] = "dropped"]
    /\ hpc' = [hpc EXCEPT ![h] = "loop"]
    /\ UNCHANGED <<delivered, response, left, cur, queryFailed, cvars, dbvars,
                   wvars>>

\* "dmQueue <- DMJob{...}": blocks while the channel is full
HandlerSend(h) ==
    /\ hpc[h] = "send"
    /\ Len(dmQueue) < capacity
    /\ dmQueue' = Append(dmQueue, NewJob(cur[h].value))
    /\ outstanding' = Append(outstanding, NewJob(cur[h].value))
    /\ waited' = Append(waited, FALSE)
    /\ hpc' = [hpc EXCEPT ![h] = "loop"]
    /\ verdict' = [verdict EXCEPT ![h] = "queued"]
    /\ UNCHANGED <<delivered, response, left, cur, queryFailed, cvars, dbvars,
                   wvars>>

-----------------------------------------------------------------------------
(* dmWorker and sendDMWithRetry *)

\* variant of LoopContinues: "attempt < config.MaxRetries"
LoopContinuesStrict(a, maxRetries) == a < maxRetries

\* the loop condition of sendDMWithRetry: attempt <= config.MaxRetries
LoopContinues(a, maxRetries) == a <= maxRetries

\* variant of NextLast: only the first error is remembered
NextLastKeepFirst(lst, err) == IF lst = NoError THEN err ELSE lst

\* "last = err": the error sendDMWithRetry remembers after a failed attempt
NextLast(lst, err) == err

\* "if attempt > 0": a backoff sleep precedes the attempt
NeedsBackoff(a) == a > 0

\* evaluation of the loop head with attempt = a and last = lst: the worker goes
\* on to a backoff sleep, to a sendDM call, or sendDMWithRetry returns lst
LoopHead(a, lst) ==
    IF LoopContinues(a, config.MaxRetries)
    THEN /\ wpc' = (IF NeedsBackoff(a) THEN "backoff" ELSE "send")
         /\ UNCHANGED ret
    ELSE /\ wpc' = "log"
         /\ ret' = lst

\* variant of WorkerReceive: the worker takes the newest job
WorkerReceiveNewest ==
    /\ wpc = "recv"
    /\ dmQueue # <<>>
    /\ job' = dmQueue[Len(dmQueue)]
    /\ dmQueue' = SubSeq(dmQueue, 1, Len(dmQueue) - 1)
    /\ wpc' = "delay"
    /\ UNCHANGED <<attempt, last, ret, nAttempts, sleeps, lastResp, dispatched,
                   cvars, ovars, dbvars, hvars>>

\* variant of WorkerReceive: a job that has already waited in the channel for
\* the length of the delay goes to sendDMWithRetry without the sleep
WorkerReceiveSkipsDelay ==
    /\ wpc = "recv"
    /\ dmQueue # <<>>
    /\ job' = Head(dmQueue)
    /\ dmQueue' = Tail(dmQueue)
    /\ IF waited[1]
       THEN /\ attempt' = 0
            /\ last' = NoError
            /\ LoopHead(0, NoError)
       ELSE /\ wpc' = "delay"
            /\ UNCHANGED <<attempt, last, ret>>
    /\ UNCHANGED <<nAttempts, sleeps, lastResp, dispatched,
                   cvars, ovars, dbvars, hvars>>

\* variant of WorkerReceive: the next job is also taken while the held job waits
\* for a retry
WorkerReceiveEarly ==
    /\ wpc \in {"recv", "backoff"}
    /\ dmQueue # <<>>
    /\ job' = Head(dmQueue)
    /\ dmQueue' = Tail(dmQueue)
    /\ wpc' = "delay"
    /\ UNCHANGED <<attempt, last, ret, nAttempts, sleeps, lastResp, dispatched,
                   cvars, ovars, dbvars, hvars>>

\* "for job := range dmQueue": the worker receives the oldest job
WorkerReceive ==
    /\ wpc = "recv"
    /\ dmQueue # <<>>
    /\ job' = Head(dmQueue)
    /\ dmQueue' = Tail(dmQueue)
    /\ wpc' = "delay"
    /\ UNCHANGED <<attempt, last, ret, nAttempts, sleeps, lastResp, dispatched,
                   cvars, ovars, dbvars, hvars>>

\* time.Sleep(config.DMDelay), then sendDMWithRetry is entered; the jobs that
\* were in the channel during the sleep have waited for its whole length, and
\* the held job's own sleep is over
WorkerDelay ==
    /\ wpc = "delay"
    /\ attempt' = 0
    /\ last' = NoError
    /\ LoopHead(0, NoError)
    /\ waited' = [i \in 1..Len(waited) |-> i # 1]
    /\ UNCHANGED <<job, nAttempts, sleeps, lastResp, dispatched,
                   cvars, outstanding, dbvars, dmQueue, hvars>>

\* time.Sleep(backoff) before a retry
WorkerBackoff ==
    /\ wpc = "backoff"
    /\ sleeps' = Append(sleeps, Backoff(config.RetryBackoffBase, attempt))
    /\ wpc' = "send"
    /\ UNCHANGED <<job, attempt, last, ret, nAttempts, lastResp, dispatched,
                   cvars, ovars, dbvars, dmQueue, hvars>>

\* variant of WorkerSend: the outcome of a job's first sendDM call is written
\* to dm_logs at once
WorkerSendLogsFirstAttempt ==
    /\ wpc = "send"
    /\ \E resp \in Responses :
          /\ lastResp' = resp
          /\ IF sendDM(resp) = NoError
             THEN /\ wpc' = "log"
                  /\ ret' = NoError
                  /\ UNCHANGED <<attempt, last>>
             ELSE /\ last' = NextLast(last, sendDM(resp))
                  /\ attempt' = attempt + 1
                  /\ LoopHead(attempt + 1, NextLast(last, sendDM(resp)))
          /\ IF nAttempts = 0
             THEN /\ now' = now + 1
                  /\ dm_logs' = Upsert(dm_logs, now', job,
                                       IF sendDM(resp) # NoError THEN "failed"
                                       ELSE "sent",
                                       sendDM(resp))
             ELSE UNCHANGED dbvars
    /\ nAttempts' = nAttempts + 1
    /\ dispatched' = IF nAttempts = 0
                     THEN [dispatched EXCEPT ![<<job.UserID, job.PostID>>] = @ + 1]
                     ELSE dispatched
    /\ UNCHANGED <<job, sleeps, cvars, ovars, dmQueue, hvars>>

\* one call of sendDM and the rest of the loop body
WorkerSend ==
    /\ wpc = "send"
    /\ \E resp \in Responses :
          /\ lastResp' = resp
          /\ IF sendDM(resp) = NoError
             THEN /\ wpc' = "log"
                  /\ ret' = NoError
                  /\ UNCHANGED <<attempt, last>>
             ELSE /\ last' = NextLast(last, sendDM(resp))
                  /\ attempt' = attempt + 1
                  /\ LoopHead(attempt + 1, NextLast(last, sendDM(resp)))
    /\ nAttempts' = nAttempts + 1
    /\ dispatched' = IF nAttempts = 0
                     THEN [dispatched EXCEPT ![<<job.UserID, job.PostID>>] = @ + 1]
                     ELSE dispatched
    /\ UNCHANGED <<job, sleeps, cvars, ovars, dbvars, dmQueue, hvars>>

\* variant of OutcomeStatus: every job is logged as sent
OutcomeStatusAlwaysSent(err) == "sent"

\* the status and message dmWorker passes to logDM
OutcomeStatus(err) == IF err # NoError THEN "failed" ELSE "sent"

\* variant of WorkerLog: the update adds the number of sendDM calls made for
\* the job to retry_count
WorkerLogCountsAttempts ==
    /\ wpc = "log"
    /\ now' = now + 1
    /\ \E execErr \in BOOLEAN :
          IF execErr
          THEN UNCHANGED dm_logs
          ELSE dm_logs' =
                 { IF r.user_id = job.UserID /\ r.post_id = job.PostID
                      /\ \E q \in dm_logs : q.user_id = r.user_id /\ q.post_id = r.post_id
                   THEN [r EXCEPT !.retry_count = r.retry_count - 1 + nAttempts]
                   ELSE r
                   : r \in Upsert(dm_logs, now', job, OutcomeStatus(ret), ret) }
    /\ wpc' = "recv"
    /\ job' = NoJob
    /\ nAttempts' = 0
    /\ sleeps' = <<>>
    /\ lastResp' = NoResponse
    /\ outstanding' = Tail(outstanding)
    /\ waited' = Tail(waited)
    /\ UNCHANGED <<attempt, last, ret, dispatched, cvars, dmQueue,
                   hvars>>

\* variant of WorkerLog: a failed statement ends the process, as log.Fatalln
\* in place of log.Println would
WorkerLogFatal ==
    /\ wpc = "log"
    /\ now' = now + 1
    /\ \E execErr \in BOOLEAN :
          IF execErr
          THEN /\ wpc' = "exit"
               /\ UNCHANGED <<dm_logs, job, nAttempts, sleeps, lastResp, ovars>>
          ELSE /\ dm_logs' = Upsert(dm_logs, now', job, OutcomeStatus(ret), ret)
               /\ wpc' = "recv"
               /\ job' = NoJob
               /\ nAttempts' = 0
               /\ sleeps' = <<>>
               /\ lastResp' = NoResponse
               /\ outstanding' = Tail(outstanding)
               /\ waited' = Tail(waited)
    /\ UNCHANGED <<attempt, last, ret, dispatched, cvars, dmQueue,
                   hvars>>

\* variant of WorkerLog: logDM is called twice for the job
WorkerLogTwice ==
    /\ wpc = "log"
    /\ now' = now + 2
    /\ \E execErr \in BOOLEAN :
          IF execErr
          THEN UNCHANGED dm_logs
          ELSE dm_logs' = Upsert(Upsert(dm_logs, now + 1, job, OutcomeStatus(ret), ret),
                                 now', job, OutcomeStatus(ret), ret)
    /\ wpc' = "recv"
    /\ job' = NoJob
    /\ nAttempts' = 0
    /\ sleeps' = <<>>
    /\ lastResp' = NoResponse
    /\ outstanding' = Tail(outstanding)
    /\ waited' = Tail(waited)
    /\ UNCHANGED <<attempt, last, ret, dispatched, cvars, dmQueue,
                   hvars>>

\* logDM: one statement, which may fail; a failure is logged and dropped
WorkerLog ==
    /\ wpc = "log"
    /\ now' = now + 1
    /\ \E execErr \in BOOLEAN :
          IF execErr
          THEN UNCHANGED dm_logs
          ELSE dm_logs' = Upsert(dm_logs, now', job, OutcomeStatus(ret), ret)
    /\ wpc' = "recv"
    /\ job' = NoJob
    /\ nAttempts' = 0
    /\ sleeps' = <<>>
    /\ lastResp' = NoResponse
    /\ outstanding' = Tail(outstanding)
    /\ waited' = Tail(waited)
    /\ UNCHANGED <<attempt, last, ret, dispatched, cvars, dmQueue,
                   hvars>>

Next ==
    \/ \E h \in Requests : HandlerStart(h)
    \/ \E h \in Requests : HandlerFinish(h)
    \/ \E h \in Requests : HandlerSkipField(h)
    \/ \E h \in Requests : HandlerNoMatch(h)
    \/ \E h \in Requests : HandlerMatch(h)
    \/ \E h \in Requests : HandlerDedup(h)
    \/ \E h \in Requests : HandlerSend(h)
    \/ WorkerReceive
    \/ WorkerDelay
    \/ WorkerBackoff
    \/ WorkerSend
    \/ WorkerLog

\* the pipeline: both requests, every KEYWORDS value, MAX_RETRIES=1
Init == Start(KeywordsEnvs, {<<"1">>}, Requests)

Spec == Init /\ [][Next]_vars

\* the retry controller: one request, KEYWORDS=dm, every MAX_RETRIES value
InitRetry == Start({<<"d", "m">>}, MaxRetriesEnvs, {1})

SpecRetry == InitRetry /\ [][Next]_vars

\* tables an earlier run of the program left behind: none, or the row logDM
\* wrote for a message sent to "u2" on post "p1"
PriorTables ==
    { {},
      Upsert({}, 0, [UserID |-> "u2", PostID |-> "p1", CommentID |-> "c3",
                     Text |-> <<"d", "m", "x">>], "sent", NoError) }

\* a restart on the database of an earlier run: one request,
\* KEYWORDS="DM, m", MAX_RETRIES=1
InitRestart ==
    StartWith({<<"D", "M", ",", " ", "m">>}, {<<"1">>}, {1}, PriorTables)

SpecRestart == InitRestart /\ [][Next]_vars

\* values of KEYWORDS that leave an empty element in the list: unset, and a
\* trailing comma; and one that leaves none
KeywordsEnvsEmpty ==
    { <<>>,
      <<"d", "m", ",">>,
      <<"d", "m">> }

InitEmptyKeyword == Start(KeywordsEnvsEmpty, {<<"1">>}, {1})

\* one request under each of these configurations
SpecEmptyKeyword == InitEmptyKeyword /\ [][Next]_vars

\* two overlapping requests in front of a channel that holds both their jobs:
\* KEYWORDS="DM, m", MAX_RETRIES=1
InitFifo ==
    StartCap({<<"D", "M", ",", " ", "m">>}, {<<"1">>}, Requests, {{}},
             QueueCapFifo)

SpecFifo == InitFifo /\ [][Next]_vars

\* every answer one call of client.Do can receive: a transport error, or any
\* three-digit status with any of the bodies
AnyResponses ==
    { [transport |-> TRUE, code |-> 0, body |-> BodyEmpty] }
        \cup [transport : {FALSE}, code : 100..599, body : ResponseBodies]

\* sendDM applied to one answer, outside the pipeline
DispatcherCall ==
    /\ nAttempts = 0
    /\ wpc = "recv"
    /\ \E resp \in AnyResponses :
          /\ lastResp' = resp
          /\ ret' = sendDM(resp)
    /\ nAttempts' = 1
    /\ UNCHANGED <<job, attempt, last, sleeps, dispatched, wpc,
                   cvars, ovars, dbvars, dmQueue, hvars>>

NextDispatcher == DispatcherCall

\* the Dispatcher alone: sendDM on every answer
InitDispatcher == Start({<<"d", "m">>}, {<<>>}, {})

SpecDispatcher == InitDispatcher /\ [][NextDispatcher]_vars

\* GET /webhook: one verification request
WebhookGet ==
    /\ \E mode \in Modes : \E token \in Tokens : \E challenge \in Challenges :
          handshake' = [route |-> "/webhook",
                        mode |-> mode, token |-> token, challenge |-> challenge,
                        answer |-> webhookGETHandler(mode, token, challenge,
                                                     verifyToken)]
    /\ UNCHANGED <<config, capacity, verifyToken, lvars, writers, ovars, dbvars,
                   dmQueue, hvars, wvars>>

NextVerify == WebhookGet

InitVerify ==
    StartToken({<<"d", "m">>}, {<<>>}, {}, {{}}, QueueCap, VerifyTokenEnvs)

\* the verification handshake alone: it reads config.VerifyToken and the
\* request, and touches nothing the pipeline uses
SpecVerify == InitVerify /\ [][NextVerify]_vars

\* a GET request on /api/accounts/:account_id/webhook/comments is answered by
\* commentWebhookHandler
CommentWebhookGet ==
    /\ \E mode \in Modes : \E token \in Tokens : \E challenge \in Challenges :
          handshake' = [route |-> "/api/accounts/:account_id/webhook/comments",
                        mode |-> mode, token |-> token, challenge |-> challenge,
                        answer |-> handleWebhookVerification(mode, token, challenge)]
    /\ UNCHANGED <<config, capacity, verifyToken, lvars, writers, ovars, dbvars,
                   dmQueue, hvars, wvars>>

NextVerifyRoutes == WebhookGet \/ CommentWebhookGet

\* one call limiter.Allow(key), some ticks after the call before it
AllowCall ==
    /\ lastAllow.n < MaxCalls
    /\ \E key \in Users : \E gap \in Gaps :
          LET r == Allow(limiter, key, clock + gap)
          IN  /\ clock' = clock + gap
              /\ limiter' = r.rl
              /\ lastAllow' = [key |-> key, ok |-> r.ok, n |-> lastAllow.n + 1]
              /\ granted' = IF r.ok
                            THEN [granted EXCEPT ![key] = Append(@, clock + gap)]
                            ELSE granted
    /\ UNCHANGED <<config, capacity, verifyToken, handshake, writers, ovars,
                   dbvars, dmQueue, hvars, wvars>>

NextLimiter == AllowCall

InitLimiter == StartToken({<<"d", "m">>}, {<<>>}, {}, {{}}, QueueCap, {""})

\* a sequence of calls of Allow on one RateLimiter
SpecLimiter == InitLimiter /\ [][NextLimiter]_vars

\* the arguments of a logDM call: the job's comment and the outcome
LogComments == {c \in Comments : c.MediaID = "p1"}
LogOutcomes == {<<"sent", NoError>>, <<"failed", ErrTransport>>}

\* another caller's INSERT of a row for the pair is not committed yet
InsertInProgress(w, userID, postID) ==
    \E v \in Writers \ {w} :
        /\ writers[v].pc = "inserted"
        /\ writers[v].user = userID /\ writers[v].post = postID

\* another caller holds the lock on the pair's row
RowLocked(w, userID, postID) ==
    \E v \in Writers \ {w} :
        /\ writers[v].pc = "locked"
        /\ writers[v].user = userID /\ writers[v].post = postID

\* caller w calls logDM(job, status, errMsg): db.Exec sends the statement, or
\* fails, and then logDM only prints the error
LogDMBegin(w) ==
    /\ writers[w].pc = "idle"
    /\ now < MaxStatements
    /\ now' = now + 1
    /\ \E c \in LogComments : \E o \in LogOutcomes : \E execErr \in BOOLEAN :
          writers' = [writers EXCEPT ![w] =
                         IF execErr THEN IdleWriter
                         ELSE [pc |-> "probe", user |-> c.From, post |-> c.MediaID,
                               comment |-> c.ID, status |-> o[1], err |-> o[2],
                               ts |-> now', raced |-> FALSE]]
    /\ UNCHANGED <<dm_logs, config, capacity, verifyToken, handshake, lvars, ovars,
                   dmQueue, hvars, wvars>>

\* ON CONFLICT (user_id, post_id): the statement looks for a row of the pair
\* under UNIQUE(user_id, post_id); it waits while another caller's row of the
\* pair is inserted and not committed
LogDMProbe(w) ==
    /\ writers[w].pc = "probe"
    /\ ~InsertInProgress(w, writers[w].user, writers[w].post)
    /\ writers' = [writers EXCEPT ![w].pc =
                      IF CountRows(dm_logs, writers[w].user, writers[w].post) > 0
                      THEN "conflict" ELSE "insert"]
    /\ UNCHANGED <<dbvars, config, capacity, verifyToken, handshake, lvars, ovars,
                   dmQueue, hvars, wvars>>

\* variant of LogDMInsert: the table has no UNIQUE(user_id, post_id), the row
\* is inserted whatever the table holds by now
LogDMInsertUnchecked(w) ==
    /\ writers[w].pc = "insert"
    /\ writers' = [writers EXCEPT ![w].pc = "inserted"]
    /\ UNCHANGED <<dbvars, config, capacity, verifyToken, handshake, lvars, ovars,
                   dmQueue, hvars, wvars>>

\* INSERT: the row goes into the unique index; if a row of the pair has come
\* in since the statement looked, the insertion is undone and the statement
\* looks again
LogDMInsert(w) ==
    /\ writers[w].pc = "insert"
    /\ writers' = [writers EXCEPT ![w] =
                      IF \/ CountRows(dm_logs, writers[w].user, writers[w].post) > 0
                         \/ InsertInProgress(w, writers[w].user, writers[w].post)
                      THEN [@ EXCEPT !.pc = "probe", !.raced = TRUE]
                      ELSE [@ EXCEPT !.pc = "inserted"]]
    /\ UNCHANGED <<dbvars, config, capacity, verifyToken, handshake, lvars, ovars,
                   dmQueue, hvars, wvars>>

\* the inserting statement commits: its row is in the table
LogDMInsertCommit(w) ==
    /\ writers[w].pc = "inserted"
    /\ dm_logs' = dm_logs \cup
                     {InsertedRow(writers[w].ts, writers[w].user, writers[w].post,
                                  writers[w].comment, writers[w].status,
                                  writers[w].err)}
    /\ writers' = [writers EXCEPT ![w].pc = "idle"]
    /\ UNCHANGED <<now, config, capacity, verifyToken, handshake, lvars, ovars,
                   dmQueue, hvars, wvars>>

\* DO UPDATE: the statement locks the pair's row, waiting while another
\* caller's statement holds it
LogDMLock(w) ==
    /\ writers[w].pc = "conflict"
    /\ ~RowLocked(w, writers[w].user, writers[w].post)
    /\ writers' = [writers EXCEPT ![w].pc = "locked"]
    /\ UNCHANGED <<dbvars, config, capacity, verifyToken, handshake, lvars, ovars,
                   dmQueue, hvars, wvars>>

\* SET retry_count = dm_logs.retry_count + 1, status = $4, error_message = $5,
\* sent_at = CURRENT_TIMESTAMP on the locked row, and commit
LogDMUpdate(w) ==
    /\ writers[w].pc = "locked"
    /\ dm_logs' = Upsert(dm_logs, writers[w].ts,
                         [UserID |-> writers[w].user, PostID |-> writers[w].post,
                          CommentID |-> writers[w].comment, Text |-> <<>>],
                         writers[w].status, writers[w].err)
    /\ writers' = [writers EXCEPT ![w].pc = "idle"]
    /\ UNCHANGED <<now, config, capacity, verifyToken, handshake, lvars, ovars,
                   dmQueue, hvars, wvars>>

NextWriters ==
    \/ \E w \in Writers : LogDMBegin(w)
    \/ \E w \in Writers : LogDMProbe(w)
    \/ \E w \in Writers : LogDMInsert(w)
    \/ \E w \in Writers : LogDMInsertCommit(w)
    \/ \E w \in Writers : LogDMLock(w)
    \/ \E w \in Writers : LogDMUpdate(w)

InitWriters == StartToken({<<"d", "m">>}, {<<>>}, {}, PriorTables, QueueCap, {""})

\* logDM called by concurrent callers, on an empty table and on one with a row
SpecWriters == InitWriters /\ [][NextWriters]_vars

\* the verification handshakes of both routes
SpecVerifyRoutes == InitVerify /\ [][NextVerifyRoutes]_vars

\* dmWorker is a goroutine of its own and is never starved: a receive on a
\* non-empty channel, the sleeps, a sendDM call (http.Client Timeout of 10 s)
\* and the logDM statement each come to an end
WorkerFairness ==
    /\ WF_vars(WorkerReceive)
    /\ WF_vars(WorkerDelay)
    /\ WF_vars(WorkerBackoff)
    /\ WF_vars(WorkerSend)
    /\ WF_vars(WorkerLog)

SpecRestartFair == InitRestart /\ [][Next]_vars /\ WorkerFairness

\* a handler blocked in "dmQueue <- job" waits in the channel's queue of
\* senders and is served when room is made: its send is not passed over for ever
SenderFairness == \A h \in Requests : SF_vars(HandlerSend(h))

\* two overlapping requests, KEYWORDS=dm, MAX_RETRIES=1, with the goroutines
\* scheduled fairly
InitQueue == StartWith({<<"d", "m">>}, {<<"1">>}, Requests, {{}})

SpecQueueFair ==
    InitQueue /\ [][Next]_vars /\ WorkerFairness /\ SenderFairness

\* the same with one request, whose body may carry more jobs than the channel
\* holds
InitQueueOne == StartWith({<<"d", "m">>}, {<<"1">>}, {1}, {{}})

SpecQueueOneFair ==
    InitQueueOne /\ [][Next]_vars /\ WorkerFairness /\ SenderFairness


-----------------------------------------------------------------------------
(* Notions the properties are stated with *)

\* dm_logs holds a row for the pair
HasRow(userID, postID) ==
    \E r \in dm_logs : r.user_id = userID /\ r.post_id = postID

\* the pair's row, when dm_logs holds exactly one
RowOf(table, userID, postID) ==
    CHOOSE r \in table : r.user_id = userID /\ r.post_id = postID

\* the lower-cased text contains one of the configured keywords
ContainsKeyword(text) ==
    \E k \in {config.Keywords[i] : i \in DOMAIN config.Keywords} :
        Contains(ToLower(text), k)

\* the endpoint did not accept the message
Failed(resp) == resp.transport \/ resp.code \notin {200, 201}

\* the job a comment must give rise to
JobOf(c) ==
    [UserID |-> c.From, PostID |-> c.MediaID, CommentID |-> c.ID, Text |-> c.Text]

\* request h takes the step that ends its duplicate check
EndsDedup(h) == hpc[h] = "dedup" /\ hpc'[h] # "dedup"

\* request h reads a change of field "comments" in this step
ReadsComment(h) ==
    left'[h] = left[h] - 1 /\ cur'[h].field = "comments" /\ cur'[h].object

-----------------------------------------------------------------------------
(* C1 *)

\* C1: for every (user, post) pair, at most one job is ever dispatched to the
\* messaging endpoint.  Violated: two matching events of one pair both pass
\* isDuplicate before dmWorker has written the pair's row.
C1_AtMostOneDispatchPerPair ==
    \A p \in Pairs : dispatched[p] <= 1

-----------------------------------------------------------------------------
(* C2 *)

\* C2: a comment whose lower-cased text contains a keyword goes to the
\* duplicate check; if dm_logs holds no row for its pair when the check runs,
\* processComment goes on to the channel send, and the send appends exactly
\* one job carrying the comment's user, post and comment id; nothing else
\* makes the queue longer.
C2_ExactlyOneJobEnqueued ==
    [][ /\ \A h \in Requests :
              /\ (ReadsComment(h) /\ ContainsKeyword(cur'[h].value.Text))
                    => hpc'[h] = "dedup"
              /\ (EndsDedup(h)
                    /\ ~HasRow(cur[h].value.From, cur[h].value.MediaID))
                    => (hpc'[h] = "send" /\ cur'[h] = cur[h] /\ dmQueue' = dmQueue)
              /\ (hpc[h] = "send" /\ hpc'[h] # "send")
                    => (/\ dmQueue' = Append(dmQueue, JobOf(cur[h].value))
                        /\ hpc'[h] = "loop"
                        /\ verdict'[h] = "queued")
        /\ Len(dmQueue') > Len(dmQueue)
              => \E h \in Requests : hpc[h] = "send" /\ hpc'[h] = "loop"
      ]_vars

\* a comment that two keywords match has been queued, once
C2_Witness ==
    \E h \in Requests :
        /\ verdict[h] = "queued"
        /\ Len(config.Keywords) = 2
        /\ \A i \in 1..2 : Contains(ToLower(cur[h].value.Text), config.Keywords[i])
        /\ dmQueue = <<JobOf(cur[h].value)>>

-----------------------------------------------------------------------------
(* C3 *)

\* C3 as stated: once a row exists for a pair, a matched event of that pair
\* that reaches the duplicate check is dropped; the queue and the attempts
\* are as before.  Violated by the code: when the query fails isDuplicate
\* answers false (err == nil && count > 0) and the replay is queued and sent.
C3_ReplayNeverEnqueues ==
    [][ \A h \in Requests :
            (EndsDedup(h) /\ HasRow(cur[h].value.From, cur[h].value.MediaID))
                => (hpc'[h] = "loop" /\ dmQueue' = dmQueue
                    /\ nAttempts' = nAttempts /\ dispatched' = dispatched)
      ]_vars

\* C3, the part the code keeps: once a row exists for a pair, a matched event
\* of that pair whose existence query returns is dropped: the handler moves on
\* to the next change, and the queue and the attempts are as before.
C3_ReplayDroppedWhenQuerySucceeds ==
    [][ \A h \in Requests :
            (EndsDedup(h) /\ ~queryFailed'[h]
               /\ HasRow(cur[h].value.From, cur[h].value.MediaID))
                => (hpc'[h] = "loop" /\ verdict'[h] = "duplicate"
                    /\ dmQueue' = dmQueue
                    /\ nAttempts' = nAttempts /\ dispatched' = dispatched)
      ]_vars

\* a matched event was dropped after a successful query found the pair's row
C3_Witness ==
    \E h \in Requests :
        /\ verdict[h] = "duplicate"
        /\ ~queryFailed[h]
        /\ HasRow(cur[h].value.From, cur[h].value.MediaID)

-----------------------------------------------------------------------------
(* C4 *)

\* C4 as stated: a pair whose row has status failed is never attempted again.
\* Violated by the code: a second job of the pair was queued before the row
\* was written (the check and the write of C1 are not one step), or was
\* admitted by a failed query (C3).
C4_FailedPairNeverAttemptedAgain ==
    \A r \in dm_logs :
        r.status = "failed"
            => ~(wpc = "send" /\ job.UserID = r.user_id /\ job.PostID = r.post_id)

\* C4, the part the code keeps: whatever the status of the pair's row, sent
\* or failed, a matched event whose existence query returns and finds the row
\* is dropped and not queued.
C4_GateIgnoresStatus ==
    [][ \A h \in Requests : \A st \in {"sent", "failed"} :
            (/\ EndsDedup(h)
             /\ ~queryFailed'[h]
             /\ \E r \in dm_logs : /\ r.user_id = cur[h].value.From
                                   /\ r.post_id = cur[h].value.MediaID
                                   /\ r.status = st)
                => (verdict'[h] = "duplicate" /\ hpc'[h] # "send"
                    /\ dmQueue' = dmQueue)
      ]_vars

\* a matched event was dropped on a row of status failed
C4_Witness ==
    \E h \in Requests : \E r \in dm_logs :
        /\ verdict[h] = "duplicate"
        /\ ~queryFailed[h]
        /\ r.user_id = cur[h].value.From
        /\ r.post_id = cur[h].value.MediaID
        /\ r.status = "failed"

-----------------------------------------------------------------------------
(* C5 *)

\* C5: a comment whose lower-cased text contains no keyword is dropped in the
\* step that reads it, with the queue, the table and the dispatch history as
\* before; and every job that is queued or held carries a text that contains
\* a keyword.
C5_NoKeywordNoEffect ==
    /\ [](/\ \A i \in 1..Len(dmQueue) : ContainsKeyword(dmQueue[i].Text)
          /\ wpc # "recv" => ContainsKeyword(job.Text))
    /\ [][ \A h \in Requests :
              (ReadsComment(h) /\ ~ContainsKeyword(cur'[h].value.Text))
                  => (/\ verdict'[h] = "nomatch"
                      /\ hpc'[h] = "loop"
                      /\ dmQueue' = dmQueue
                      /\ dm_logs' = dm_logs
                      /\ nAttempts' = nAttempts
                      /\ dispatched' = dispatched)
         ]_vars

\* a comment without keyword was dropped while its pair has a row
C5_Witness ==
    \E h \in Requests :
        /\ verdict[h] = "nomatch"
        /\ cur[h].value.Text # <<>>
        /\ HasRow(cur[h].value.From, cur[h].value.MediaID)

-----------------------------------------------------------------------------
(* C6 *)

\* C6: sendDM is called at most MaxRetries + 1 times for one job, and exactly
\* MaxRetries + 1 times when sendDMWithRetry returns after a failed attempt,
\* whichever error that attempt gave.
C6_AttemptBound ==
    /\ nAttempts <= config.MaxRetries + 1
    /\ (wpc = "log" /\ nAttempts > 0 /\ Failed(lastResp))
          => nAttempts = config.MaxRetries + 1
    /\ (wpc = "log" /\ nAttempts = 0) => config.MaxRetries < 0

\* with MaxRetries = 3 a job was given up after four calls, the last one
\* answered with the window-expired error
C6_Witness ==
    /\ wpc = "log"
    /\ config.MaxRetries = 3
    /\ nAttempts = 4
    /\ WindowExpired(lastResp.body)
    /\ lastResp.code = 403

-----------------------------------------------------------------------------
(* C7 *)

\* C7: the first sendDM call of a job is preceded by no backoff sleep, the
\* k-th retry by a sleep of RetryBackoffBase * 2^(k-1) seconds; with base 2 s
\* and MaxRetries = 3 a job that always fails sleeps 2, 4, 8 and nothing
\* longer.
C7_BackoffSchedule ==
    /\ \A k \in 1..Len(sleeps) : sleeps[k] = config.RetryBackoffBase * 2 ^ (k - 1)
    /\ config.RetryBackoffBase = 2
    /\ wpc = "send" => Len(sleeps) = nAttempts
    /\ wpc = "backoff" => Len(sleeps) = nAttempts - 1
    /\ (wpc = "log" /\ config.MaxRetries = 3 /\ nAttempts = 4)
          => sleeps = <<2, 4, 8>>
    /\ config.MaxRetries = 3 => \A k \in 1..Len(sleeps) : sleeps[k] <= 8

\* an always-failing job has slept 2, 4 and 8 seconds
C7_Witness ==
    /\ wpc = "log"
    /\ Failed(lastResp)
    /\ sleeps = <<2, 4, 8>>

-----------------------------------------------------------------------------
(* C8 *)

\* C8: after an attempt that succeeded the worker is past sendDMWithRetry (no
\* further attempt or sleep), which returned no error; when it returns after
\* a failed attempt it returns the error of that last attempt.
C8_ReturnValue ==
    /\ (nAttempts > 0 /\ ~Failed(lastResp)) => (wpc = "log" /\ ret = NoError)
    /\ (wpc = "log" /\ nAttempts > 0 /\ Failed(lastResp))
          => (ret # NoError /\ ret = sendDM(lastResp))

\* a job was given up whose last attempt failed in transport, after an
\* earlier attempt
C8_Witness ==
    /\ wpc = "log"
    /\ nAttempts = 2
    /\ lastResp.transport
    /\ ret = ErrTransport

-----------------------------------------------------------------------------
(* C9 *)

\* the worker writes the outcome of a job that made four failed attempts under
\* MaxRetries = 3, for a pair without a row
WritesExhausted ==
    /\ wpc = "log"
    /\ wpc' = "recv"
    /\ config.MaxRetries = 3
    /\ nAttempts = 4
    /\ Failed(lastResp)
    /\ ~HasRow(job.UserID, job.PostID)

-----------------------------------------------------------------------------
(* C10 *)

\* caller w commits a statement in this step
Commits(w) == writers[w].pc \in {"inserted", "locked"} /\ writers'[w].pc = "idle"

\* C10: with logDM called by concurrent callers, for the same pair as well,
\* dm_logs never holds two rows of one (user, post) pair; no step removes a
\* pair's row or lowers its retry_count; a statement that commits for a pair
\* with a row leaves that one row with its comment_id and a retry_count one
\* higher, and one that commits for a pair without row leaves one row with
\* retry_count 0.
C10_OneRowPerPairMonotone ==
    /\ [](\A r1, r2 \in dm_logs :
             (r1.user_id = r2.user_id /\ r1.post_id = r2.post_id) => r1 = r2)
    /\ [][ /\ \A r \in dm_logs : \E r2 \in dm_logs' :
                 /\ r2.user_id = r.user_id
                 /\ r2.post_id = r.post_id
                 /\ r2.retry_count >= r.retry_count
           /\ \A w \in Writers :
                 Commits(w)
                    => LET u == writers[w].user
                           p == writers[w].post
                       IN  /\ CountRows(dm_logs', u, p) = 1
                           /\ IF HasRow(u, p)
                              THEN /\ RowOf(dm_logs', u, p).retry_count
                                         = RowOf(dm_logs, u, p).retry_count + 1
                                   /\ RowOf(dm_logs', u, p).comment_id
                                         = RowOf(dm_logs, u, p).comment_id
                              ELSE RowOf(dm_logs', u, p).retry_count = 0
         ]_vars

\* two callers had statements for the pair (u1, p1) in progress at the same
\* time on a table without row for it: one inserted the row; the other found
\* it when it came to insert, looked again and updated it.  Both are done and
\* the pair has one row, with retry_count 1.
C10_Witness ==
    /\ dm_logs # {}
    /\ \A w \in Writers :
          /\ writers[w].pc = "idle"
          /\ writers[w].user = "u1" /\ writers[w].post = "p1"
    /\ \E w \in Writers : writers[w].raced
    /\ now = 2
    /\ CountRows(dm_logs, "u1", "p1") = 1
    /\ RowOf(dm_logs, "u1", "p1").retry_count = 1

-----------------------------------------------------------------------------
(* C11 *)

\* C11: a logDM statement that succeeds for a pair without row adds one row
\* with the job's comment id, the status and error passed to it, and
\* retry_count 0; for a pair with a row it raises that row's retry_count by
\* exactly 1, overwrites status, error_message and sent_at, and keeps the
\* stored comment_id; the rows of every other pair are as before.
C11_UpsertContract ==
    [][ (wpc = "log" /\ dm_logs' # dm_logs) =>
          LET key(r) == r.user_id = job.UserID /\ r.post_id = job.PostID
              st     == IF ret = NoError THEN "sent" ELSE "failed"
          IN  /\ \A r \in dm_logs : ~key(r) => r \in dm_logs'
              /\ \A r \in dm_logs' : ~key(r) => r \in dm_logs
              /\ Cardinality({r \in dm_logs' : key(r)}) = 1
              /\ \A n \in dm_logs' : key(n) =>
                    /\ n.status = st
                    /\ n.error_message = ret
                    /\ n.sent_at = now'
                    /\ IF HasRow(job.UserID, job.PostID)
                       THEN \E o \in dm_logs :
                               /\ key(o)
                               /\ n.retry_count = o.retry_count + 1
                               /\ n.comment_id = o.comment_id
                       ELSE /\ n.retry_count = 0
                            /\ n.comment_id = job.CommentID
      ]_vars

\* after a restart on a table that holds another pair's row, the job of
\* comment "c2" was merged into the row written for comment "c1": the row
\* keeps "c1", counts 1, and the other pair's row is as it was
C11_Witness ==
    /\ wpc = "recv"
    /\ dmQueue = <<>>
    /\ cur[1].value.ID = "c2"
    /\ verdict[1] = "queued"
    /\ Cardinality(dm_logs) = 2
    /\ \E r \in dm_logs :
          /\ r.user_id = "u1" /\ r.post_id = "p1"
          /\ r.comment_id = "c1"
          /\ r.retry_count = 1
          /\ r.sent_at = 2
    /\ \E r \in dm_logs : r \in UNION PriorTables

-----------------------------------------------------------------------------
(* C12 *)

\* C12 as stated: no job finishes processing with its outcome unrecorded:
\* when the worker is done with a job, dm_logs holds a row of the job's pair
\* with the job's status and error.  Violated: logDM only logs an error of
\* its statement, and the job ends without a row: a defect of the code.
C12_OutcomeAlwaysRecorded ==
    [][ (wpc = "log" /\ wpc' = "recv") =>
          \E r \in dm_logs' :
              /\ r.user_id = job.UserID /\ r.post_id = job.PostID
              /\ r.status = (IF ret = NoError THEN "sent" ELSE "failed")
              /\ r.error_message = ret
      ]_vars

\* C12, the part the code keeps: every job admitted to the queue is
\* eventually taken by the worker and brought to logDM, and logDM returns;
\* when its statement is executed, the row of the job's pair records that
\* job's outcome (sent with no error, or failed with the returned error);
\* when the statement fails the table is as before.
C12_EveryJobReachesLogDM ==
    /\ \A c \in Comments :
          (\E i \in 1..Len(dmQueue) : dmQueue[i] = NewJob(c))
              ~> (wpc = "log" /\ job = NewJob(c))
    /\ (wpc = "log") ~> (wpc = "recv")
    /\ [][ (wpc = "log" /\ wpc' = "recv" /\ dm_logs' # dm_logs) =>
              \E r \in dm_logs' :
                  /\ r.user_id = job.UserID /\ r.post_id = job.PostID
                  /\ r.status = (IF ret = NoError THEN "sent" ELSE "failed")
                  /\ r.error_message = ret
                  /\ (r.status = "sent") = (nAttempts > 0 /\ ~Failed(lastResp))
                  /\ r.sent_at = now'
         ]_vars

\* both jobs of a body were processed: the second waited in the queue and its
\* failure in transport is what the pair's row records
C12_Witness ==
    /\ wpc = "recv"
    /\ dmQueue = <<>>
    /\ hpc[1] = "done"
    /\ \E r \in dm_logs :
          /\ r.user_id = "u1"
          /\ r.retry_count = 1
          /\ r.status = "failed"
          /\ r.error_message = ErrTransport

-----------------------------------------------------------------------------
(* C13 *)

\* C13: the worker takes jobs in the order their channel sends completed: the
\* jobs sent and not yet through logDM are, oldest first, the job the worker
\* holds followed by the content of dmQueue; the worker receives the oldest of
\* them, and every sendDM call is made for the oldest of them, which stays
\* held, so that all calls for a job precede all calls for a job sent after
\* it, also when two handlers send concurrently.
C13_FifoOrder ==
    /\ [](outstanding = (IF wpc = "recv" THEN <<>> ELSE <<job>>) \o dmQueue)
    /\ [][ /\ (wpc = "recv" /\ wpc' # "recv") => job' = Head(outstanding)
           /\ nAttempts' > nAttempts
                 => (job = Head(outstanding) /\ job' = job
                     /\ outstanding' = outstanding)
         ]_vars

\* the job of request 2 was sent before the different job of request 1, both
\* were in flight together, and the worker is retrying the job of request 2
\* while that of request 1 waits
C13_Witness ==
    /\ verdict[1] = "queued"
    /\ verdict[2] = "queued"
    /\ cur[1].value # cur[2].value
    /\ outstanding = <<NewJob(cur[2].value), NewJob(cur[1].value)>>
    /\ wpc = "backoff"
    /\ job = NewJob(cur[2].value)
    /\ nAttempts = 1
    /\ dmQueue = <<NewJob(cur[1].value)>>

-----------------------------------------------------------------------------
(* C14 *)

\* C14: dmQueue never holds more jobs than the capacity it was made with; a
\* handler that reaches the channel send while the channel is full stays at
\* the send, with its comment, as long as the channel is full; a completed
\* send appends the job of that comment; and every handler at the send
\* eventually completes it: the job is not dropped.
C14_BoundedBlockingQueue ==
    /\ [](Len(dmQueue) <= capacity)
    /\ [][ \A h \in Requests :
              /\ (hpc[h] = "send" /\ Len(dmQueue) = capacity)
                    => (hpc'[h] = "send" /\ cur'[h] = cur[h])
              /\ (hpc[h] = "send" /\ hpc'[h] # "send")
                    => dmQueue' = Append(dmQueue, NewJob(cur[h].value))
         ]_vars
    /\ \A h \in Requests :
          (hpc[h] = "send") ~> (hpc[h] = "loop" /\ verdict[h] = "queued")

\* the handler is blocked at the send with the job of comment "c3": the
\* channel is full, its oldest job is that of comment "c1", which the worker
\* has not received yet
C14_Witness ==
    /\ hpc[1] = "send"
    /\ cur[1].value.ID = "c3"
    /\ Len(dmQueue) = capacity
    /\ dmQueue[1].CommentID = "c1"
    /\ wpc = "recv"

-----------------------------------------------------------------------------
(* C15 *)

\* C15: the send of a matched comment appends a job for the comment's author
\* and media id; the first sendDM call of a job follows the DMDelay sleep; a
\* first call that is accepted is the only one; and when the job's dispatch
\* succeeded, its pair has no row and the logDM statement is executed, the
\* row written has status sent, retry_count 0, no error and the comment's id.
C15_SuccessfulDelivery ==
    [][ /\ \A h \in Requests :
              (hpc[h] = "send" /\ hpc'[h] # "send")
                  => /\ Len(dmQueue') = Len(dmQueue) + 1
                     /\ dmQueue'[Len(dmQueue')].UserID = cur[h].value.From
                     /\ dmQueue'[Len(dmQueue')].PostID = cur[h].value.MediaID
        /\ (wpc # "send" /\ wpc' = "send" /\ nAttempts' = 0) => wpc = "delay"
        /\ (nAttempts = 0 /\ nAttempts' = 1) => (wpc = "send" /\ job' = job)
        /\ (nAttempts' = 1 /\ nAttempts = 0 /\ ~Failed(lastResp'))
              => (wpc' = "log" /\ ret' = NoError)
        /\ (wpc = "log" /\ ~Failed(lastResp)) => nAttempts >= 1
        /\ (/\ wpc = "log" /\ wpc' = "recv"
            /\ nAttempts >= 1 /\ ~Failed(lastResp)
            /\ ~HasRow(job.UserID, job.PostID)
            /\ dm_logs' # dm_logs)
              => \E r \in dm_logs' :
                    /\ r.user_id = job.UserID /\ r.post_id = job.PostID
                    /\ r.comment_id = job.CommentID
                    /\ r.status = "sent"
                    /\ r.retry_count = 0
                    /\ r.error_message = NoError
      ]_vars

\* comment "c3" ("dmx" by "u2" on "p1") was answered with one job and its
\* row says sent, with retry_count 0
C15_Witness ==
    /\ dispatched[<<"u2", "p1">>] = 1
    /\ wpc = "recv"
    /\ dmQueue = <<>>
    /\ \E r \in dm_logs :
          /\ r.user_id = "u2" /\ r.post_id = "p1" /\ r.comment_id = "c3"
          /\ r.status = "sent" /\ r.retry_count = 0
          /\ r.error_message = NoError /\ r.sent_at = 1

-----------------------------------------------------------------------------
(* C16 *)

\* C16: when a job is given up after MaxRetries + 1 calls and the last call
\* (so in particular when every call) was answered 403 with error code 10 and
\* subcode 2534022, the row logDM writes has status failed and an
\* error_message that contains "window"; that message is the window-expired
\* message of sendDM and differs from every message "api_error_<status>:
\* <body>" that sendDM gives for a refused call without that code and subcode,
\* whatever its body says.
C16_WindowExpiredRecorded ==
    /\ [](LET coded == [transport |-> FALSE, code |-> 403,
                        body |-> BodyWindowExpired]
          IN  /\ \E i \in 1..Len(sendDM(coded)) : sendDM(coded)[i] = "window"
              /\ \A b \in ResponseBodies :
                    ~WindowExpired(b)
                       => /\ sendDM([coded EXCEPT !.body = b]) = ErrApi(403, b)
                          /\ sendDM(coded) # ErrApi(403, b))
    /\ [][ (/\ wpc = "log" /\ wpc' = "recv"
            /\ nAttempts = config.MaxRetries + 1
            /\ lastResp.code = 403 /\ WindowExpired(lastResp.body)
            /\ dm_logs' # dm_logs)
              => \E r \in dm_logs' :
                    /\ r.user_id = job.UserID /\ r.post_id = job.PostID
                    /\ r.status = "failed"
                    /\ \E i \in 1..Len(r.error_message) :
                           r.error_message[i] = "window"
                    /\ \A b \in ResponseBodies : \A c \in 100..599 :
                           r.error_message # ErrApi(c, b)
         ]_vars

\* with MAX_RETRIES=1 a job was given up after two calls and its row carries
\* the window-expired message
C16_Witness ==
    /\ config.MaxRetries = 1
    /\ wpc = "recv"
    /\ \E r \in dm_logs :
          /\ r.status = "failed"
          /\ r.retry_count = 0
          /\ r.error_message = <<"24_hour_messaging", "window", "expired">>

-----------------------------------------------------------------------------
(* C17 *)

\* C17 as stated: sendDM returns no error for every status from 200 to 299
\* and an error for every other status.  Violated: 202 is an error.
C17_Every2xxIsSuccess ==
    nAttempts = 1 =>
        ((ret = NoError) <=> (~lastResp.transport /\ lastResp.code \in 200..299))

\* C17 amended: sendDM returns no error for the statuses 200 and 201, and an
\* error for every other status, the other 2xx included, and for a transport
\* error.
C17_Only200And201AreSuccess ==
    nAttempts = 1 =>
        /\ (ret = NoError) <=> (~lastResp.transport /\ lastResp.code \in {200, 201})
        /\ (~lastResp.transport /\ lastResp.code \in (202..299) \cup (100..199)
                \cup (300..599))
              => ret # NoError
        /\ lastResp.transport => ret # NoError

\* a call answered 204 No Content was classified as a failure
C17_Witness ==
    /\ nAttempts = 1
    /\ lastResp.code = 204
    /\ lastResp.body = BodyEmpty
    /\ ret = <<"api_error", "204">>

-----------------------------------------------------------------------------
(* C18 *)

\* a verification request has been answered
Answered == handshake.answer # NoAnswer

\* C18 as stated: the answer is 200 with the challenge as body if and only if
\* mode is "subscribe" and the token equals the configured one, and 403 with
\* an empty body otherwise.  Violated: with VERIFY_TOKEN unset, a request
\* without token is refused although both tokens are "".
C18_HandshakeIffTokenEqual ==
    Answered =>
        IF handshake.mode = "subscribe" /\ handshake.token = verifyToken
        THEN handshake.answer = Answer(200, handshake.challenge)
        ELSE handshake.answer = Answer(403, "")

\* C18 amended: the answer is 200 with exactly the challenge as body if and
\* only if mode is "subscribe" and the token is not empty and equals the
\* configured one; in every other case it is 403 with an empty body.
C18_HandshakeIffNonEmptyTokenEqual ==
    Answered =>
        /\ handshake.answer \in
              {Answer(200, handshake.challenge), Answer(403, "")}
        /\ (handshake.answer.status = 200)
              <=> (/\ handshake.mode = "subscribe"
                   /\ handshake.token # ""
                   /\ handshake.token = verifyToken)
        /\ handshake.answer.status = 200
              => handshake.answer.body = handshake.challenge
        /\ handshake.answer.status = 403 => handshake.answer.body = ""

\* the request with the right token and challenge "abc123" was answered 200
\* with body "abc123"
C18_Witness ==
    /\ verifyToken = "secret"
    /\ handshake.mode = "subscribe"
    /\ handshake.token = "secret"
    /\ handshake.challenge = "abc123"
    /\ handshake.answer = [status |-> 200, body |-> "abc123"]

-----------------------------------------------------------------------------
(* C19 *)

\* C19: every answer webhookPOSTHandler writes has status 200, and a request
\* that is done has been answered; the step that finds the body undecodable
\* answers at once and leaves the queue, the table and the worker as they are.
C19_PostAlwaysAnswers200 ==
    /\ [](\A h \in Requests :
             /\ response[h] # NoAnswer => response[h].status = 200
             /\ hpc[h] = "done" => response[h].status = 200
             /\ hpc[h] # "done" => response[h] = NoAnswer)
    /\ [][ \A h \in Requests :
              (verdict'[h] = "undecoded" /\ verdict[h] # "undecoded")
                  => /\ hpc[h] = "idle"
                     /\ hpc'[h] = "done"
                     /\ response'[h].status = 200
                     /\ left'[h] = 0
                     /\ UNCHANGED <<dmQueue, outstanding, dm_logs, wvars>>
         ]_vars

\* request 2 carried a body that does not decode and was answered 200, while
\* a job of request 1 is in the worker's hands and the table is empty
C19_Witness ==
    /\ verdict[2] = "undecoded"
    /\ response[2] = [status |-> 200, body |-> ""]
    /\ hpc[2] = "done"
    /\ wpc = "send"
    /\ dm_logs = {}

-----------------------------------------------------------------------------
(* C20 *)

\* the configuration loadConfig builds when MAX_RETRIES is unset
DefaultConfig == loadConfig(<<"d", "m">>, <<>>)

\* sendDMWithRetry has returned after a failed attempt
GivenUp == wpc = "log" /\ nAttempts > 0 /\ Failed(lastResp)

\* C20 as stated: with the default configuration a dispatch that keeps
\* failing sleeps 2, 4, 8 and 16 seconds between its attempts.  Violated: the
\* default of three retries gives three sleeps.
C20_DelaysUpToSixteen ==
    (config = DefaultConfig /\ GivenUp) => sleeps = <<2, 4, 8, 16>>

\* C20 amended: with the default configuration (three retries, base 2 s) a
\* dispatch that keeps failing sleeps 2, 4 and 8 seconds between its four
\* attempts; there is no fourth retry and no sleep of 16 seconds.
C20_DefaultDelaysTwoFourEight ==
    /\ DefaultConfig.MaxRetries = 3
    /\ DefaultConfig.RetryBackoffBase = 2
    /\ (config = DefaultConfig /\ GivenUp) => (sleeps = <<2, 4, 8>> /\ nAttempts = 4)
    /\ config = DefaultConfig =>
          (Len(sleeps) <= 3 /\ \A k \in 1..Len(sleeps) : sleeps[k] < 16)

\* under the default configuration a job was given up on a 500 after the
\* sleeps of 2, 4 and 8 seconds
C20_Witness ==
    /\ config = DefaultConfig
    /\ GivenUp
    /\ lastResp.code = 500
    /\ sleeps = <<2, 4, 8>>

-----------------------------------------------------------------------------
(* C21 *)

\* jobs of the pair that were sent on dmQueue and are not yet logged
InFlight(userID, postID) ==
    Cardinality({i \in 1..Len(outstanding) :
                    outstanding[i].UserID = userID /\ outstanding[i].PostID = postID})

\* C21: the duplicate check reads dm_logs alone: an event whose pair has no
\* row passes it also while a job of that pair is queued or held, so that two
\* jobs of one pair are in flight; both are dispatched, and when both logDM
\* statements succeed the second one merges into the pair's single row, which
\* then has retry_count 1.  The table never holds two rows of a pair that was
\* dispatched twice.
C21_RaceTwoJobsOneRow ==
    /\ [](\A p \in Pairs :
             dispatched[p] = 2 => CountRows(dm_logs, p[1], p[2]) <= 1)
    /\ [][ /\ \A h \in Requests :
                (/\ EndsDedup(h)
                 /\ ~HasRow(cur[h].value.From, cur[h].value.MediaID)
                 /\ InFlight(cur[h].value.From, cur[h].value.MediaID) > 0)
                    => hpc'[h] = "send"
           /\ \A h \in Requests :
                (/\ hpc[h] = "send" /\ hpc'[h] # "send"
                 /\ InFlight(cur[h].value.From, cur[h].value.MediaID) = 1)
                    => InFlight(cur[h].value.From, cur[h].value.MediaID)' = 2
           /\ (/\ wpc = "log" /\ wpc' = "recv"
               /\ dispatched[<<job.UserID, job.PostID>>] = 2
               /\ HasRow(job.UserID, job.PostID)
               /\ RowOf(dm_logs, job.UserID, job.PostID).retry_count = 0
               /\ dm_logs' # dm_logs)
                  => /\ CountRows(dm_logs', job.UserID, job.PostID) = 1
                     /\ RowOf(dm_logs', job.UserID, job.PostID).retry_count = 1
         ]_vars

\* two overlapping requests delivered the same comment, both passed a check
\* whose query succeeded, both jobs were dispatched, and dm_logs holds one row
\* of the pair with retry_count 1
C21_Witness ==
    /\ verdict[1] = "queued" /\ verdict[2] = "queued"
    /\ cur[1] = cur[2]
    /\ cur[1].value.ID = "c1"
    /\ ~queryFailed[1] /\ ~queryFailed[2]
    /\ dispatched[<<"u1", "p1">>] = 2
    /\ wpc = "recv"
    /\ outstanding = <<>>
    /\ dm_logs # {}
    /\ \A r \in dm_logs : r.retry_count = 1

-----------------------------------------------------------------------------
(* C22 *)

\* C22: a matched event passes the duplicate check exactly when its query
\* fails or dm_logs holds no row of its pair at that moment, whatever is
\* queued, held or being dispatched, and whether the earlier event of the pair
\* came in the same body or in another request; an event is dropped as a
\* duplicate only if the pair's row is in dm_logs, and a pair's row comes into
\* dm_logs only by the worker's logDM for a job of that pair.
C22_GateClosesAtRecordWrite ==
    [][ /\ \A h \in Requests :
              EndsDedup(h)
                 => /\ hpc'[h] = "send"
                          <=> (\/ queryFailed'[h]
                               \/ ~HasRow(cur[h].value.From, cur[h].value.MediaID))
                    /\ hpc'[h] # "send"
                          => (/\ verdict'[h] = "duplicate"
                              /\ HasRow(cur[h].value.From, cur[h].value.MediaID))
        /\ \A p \in Pairs :
              (~HasRow(p[1], p[2]) /\ HasRow(p[1], p[2])')
                 => (/\ wpc = "log" /\ wpc' = "recv"
                     /\ job.UserID = p[1] /\ job.PostID = p[2])
      ]_vars

\* one body carried two comments of one pair: the job of the first is queued
\* and not yet logged, the second passed a check whose query succeeded, and
\* the other request has not arrived
C22_Witness ==
    /\ hpc[1] = "send"
    /\ hpc[2] = "idle"
    /\ delivered = 2
    /\ left[1] = 0
    /\ ~queryFailed[1]
    /\ cur[1].value.ID = "c2"
    /\ Len(outstanding) = 1
    /\ outstanding[1].CommentID = "c1"
    /\ outstanding[1].UserID = cur[1].value.From
    /\ outstanding[1].PostID = cur[1].value.MediaID
    /\ dmQueue = outstanding
    /\ dm_logs = {}

\* the same with handlers that run one after another: the first request was
\* answered, its job is held by the worker, which has not written the row,
\* and the second request's event of the pair passed the check
C22_WitnessSequential ==
    /\ hpc[1] = "done"
    /\ response[1] = Answer(200, "")
    /\ hpc[2] = "send"
    /\ ~queryFailed[2]
    /\ wpc = "send"
    /\ job.UserID = cur[2].value.From
    /\ job.PostID = cur[2].value.MediaID
    /\ dm_logs = {}

-----------------------------------------------------------------------------
(* C23 *)

\* C23: between receiving a job and receiving the next one the worker calls
\* logDM exactly once, for the job it holds, after sendDMWithRetry has
\* returned: every job sent on the channel and not yet logged is either still
\* queued or the one job held; the worker comes back to the receive only by
\* the logDM step and reaches logDM only by a return of sendDMWithRetry; the
\* step issues one statement, and when the statement executes it writes
\* status sent with an empty error if nil was returned, status failed with
\* the returned error's text otherwise; nothing else changes dm_logs.
C23_OneLogWritePerJob ==
    /\ [](/\ Len(outstanding) = Len(dmQueue) + (IF wpc = "recv" THEN 0 ELSE 1)
          /\ wpc # "recv" => (job # NoJob /\ Head(outstanding) = job)
          /\ wpc = "recv" => job = NoJob)
    /\ [][ /\ (wpc # "recv" /\ wpc' = "recv") => wpc = "log"
           /\ (wpc # "log" /\ wpc' = "log") => wpc \in {"delay", "send"}
           /\ (wpc = "log" /\ wpc' # "log") => (wpc' = "recv" /\ now' = now + 1)
           /\ (now' # now \/ dm_logs' # dm_logs)
                 => (wpc = "log" /\ wpc' = "recv" /\ now' = now + 1)
           /\ (wpc = "log" /\ dm_logs' # dm_logs)
                 => \/ /\ ret = NoError
                       /\ dm_logs' = Upsert(dm_logs, now', job, "sent", <<>>)
                    \/ /\ ret # NoError
                       /\ dm_logs' = Upsert(dm_logs, now', job, "failed", ret)
         ]_vars

\* the worker has logged a failed job and holds the next one, which it logs
\* after a successful attempt
C23_Witness ==
    /\ wpc = "log"
    /\ ret = NoError
    /\ nAttempts > 0
    /\ now = 1
    /\ \E r \in dm_logs : r.status = "failed" /\ r.error_message # NoError
    /\ ~HasRow(job.UserID, job.PostID)

-----------------------------------------------------------------------------
(* C24 *)

\* jobs the worker has received and not yet passed to logDM
InProcess == Len(outstanding) - Len(dmQueue)

\* C24: at most one job is in process at any time.  The worker receives a job
\* only when it holds none, every job sent before it has been logged, and no
\* attempt or sleep of an earlier job is pending; the delay, every sendDM call
\* and every backoff sleep belong to the job held, which is the oldest job not
\* yet logged, and the held job changes only at the receive and at logDM.
C24_OneJobAtATime ==
    /\ [](/\ InProcess \in {0, 1}
          /\ InProcess = 1 <=> wpc # "recv")
    /\ [][ /\ Len(dmQueue') < Len(dmQueue)
                 => (/\ wpc = "recv"
                     /\ job = NoJob
                     /\ InProcess = 0
                     /\ nAttempts = 0 /\ sleeps = <<>>
                     /\ job' = Head(dmQueue)
                     /\ wpc' = "delay")
           /\ (\/ nAttempts' > nAttempts
               \/ Len(sleeps') > Len(sleeps)
               \/ (wpc = "delay" /\ wpc' # "delay"))
                 => (/\ job' = job
                     /\ job = Head(outstanding)
                     /\ Len(dmQueue') >= Len(dmQueue))
           /\ job' # job
                 => \/ (wpc = "recv" /\ wpc' = "delay")
                    \/ (wpc = "log" /\ wpc' = "recv")
         ]_vars

\* the worker sleeps before the retry of the job of comment "c1" while the job
\* of comment "c3" waits in the channel
C24_Witness ==
    /\ wpc = "backoff"
    /\ nAttempts = 1
    /\ job.CommentID = "c1"
    /\ Len(dmQueue) = 1
    /\ dmQueue[1].CommentID = "c3"
    /\ outstanding = <<job>> \o dmQueue

-----------------------------------------------------------------------------
(* C25 *)

\* C25: every job the worker receives goes to time.Sleep(DMDelay) first,
\* whether or not it has already waited in the channel for that long; no
\* sendDM call is made at the receive or during the sleep, the first call of
\* a job follows the sleep, and a call is only made after the sleep or after a
\* backoff sleep.
C25_DelayBeforeEveryDispatch ==
    /\ [](wpc = "delay" => (nAttempts = 0 /\ sleeps = <<>> /\ job = Head(outstanding)))
    /\ [][ /\ (wpc = "recv" /\ wpc' # "recv")
                 => (wpc' = "delay" /\ nAttempts' = 0 /\ job' = Head(dmQueue))
           /\ \A b \in BOOLEAN :
                 (Len(dmQueue') < Len(dmQueue) /\ waited[1] = b)
                    => (wpc' = "delay" /\ waited'[1] = b)
           /\ (wpc = "delay" /\ wpc' # "delay")
                 => (nAttempts' = 0 /\ wpc' \in {"send", "log"} /\ job' = job)
           /\ (wpc # "send" /\ wpc' = "send") => wpc \in {"delay", "backoff"}
           /\ nAttempts' > nAttempts => wpc = "send"
           /\ (nAttempts = 0 /\ nAttempts' = 1) => (wpc = "send" /\ sleeps = <<>>)
         ]_vars

\* a job that was in the channel during the whole delay of the job before it
\* has been received after that job was logged, and is at its own delay
C25_Witness ==
    /\ wpc = "delay"
    /\ nAttempts = 0
    /\ waited[1]
    /\ job = Head(outstanding)
    /\ now = 1

-----------------------------------------------------------------------------
(* C26 *)

\* C26 as stated: the pair's first row is inserted when the first sendDM call
\* for the pair is made, without waiting for the retries: the worker never
\* sleeps before a retry or makes a retry for a job whose pair has no row.
\* Violated: logDM is called after sendDMWithRetry has returned, so a job
\* whose first call failed goes through its retries with no row in dm_logs.
C26_RowAtFirstAttempt ==
    (wpc \in {"backoff", "send"} /\ nAttempts >= 1)
        => HasRow(job.UserID, job.PostID)

\* C26 amended: the pair's first row is inserted by the logDM that follows
\* the return of sendDMWithRetry, that is after the first sendDM call when it
\* succeeded and after the last retry when every call failed; while the first
\* job dispatched for a pair is in its retries, dm_logs holds no row of the
\* pair.
C26_RowAfterControllerReturns ==
    /\ []((/\ wpc \in {"backoff", "send"}
           /\ nAttempts >= 1
           /\ dispatched[<<job.UserID, job.PostID>>] = 1)
             => ~HasRow(job.UserID, job.PostID))
    /\ [][ \A p \in Pairs :
              (~HasRow(p[1], p[2]) /\ HasRow(p[1], p[2])')
                 => /\ wpc = "log" /\ wpc' = "recv"
                    /\ job.UserID = p[1] /\ job.PostID = p[2]
                    /\ nAttempts >= 1
                          => \/ ~Failed(lastResp)
                             \/ nAttempts = config.MaxRetries + 1
                    /\ RowOf(dm_logs', p[1], p[2]).retry_count = 0
                    /\ RowOf(dm_logs', p[1], p[2]).status
                          = (IF ret = NoError THEN "sent" ELSE "failed")
         ]_vars

\* the first job of a pair is in its second retry sleep, after two failed
\* calls, and dm_logs is empty
C26_Witness ==
    /\ wpc = "backoff"
    /\ nAttempts = 2
    /\ Failed(lastResp)
    /\ dispatched[<<job.UserID, job.PostID>>] = 1
    /\ dm_logs = {}

-----------------------------------------------------------------------------
(* C27 *)

\* the k-th job sent on the channel since the start is queued or held
Pending(k) == now < k /\ k <= now + Len(outstanding)

\* the k-th job sent on the channel is in the channel
Queued(k) == Pending(k) /\ k > now + InProcess

\* the worker can take a step
WorkerCanStep ==
    ENABLED (WorkerReceive \/ WorkerDelay \/ WorkerBackoff \/ WorkerSend \/ WorkerLog)

\* C27: with the worker scheduled fairly, every sendDM call returning and
\* blocked senders served, every job sent on the channel is eventually
\* received by the worker and eventually through logDM; every handler that
\* finds the channel full eventually completes its send; and the worker is
\* never at an end: it is at one of the positions of its loop, where it can
\* take a step unless it waits at the receive for an empty channel, and it
\* comes back to the receive again and again.
C27_EveryJobCompletes ==
    /\ \A k \in 1..MaxChanges :
          /\ Queued(k) ~> (now = k - 1 /\ wpc = "delay")
          /\ Pending(k) ~> (now >= k)
    /\ \A h \in Requests :
          (hpc[h] = "send" /\ Len(dmQueue) = capacity) ~> (verdict[h] = "queued")
    /\ [](/\ wpc \in {"recv", "delay", "backoff", "send", "log"}
          /\ (wpc = "recv" /\ dmQueue = <<>>) \/ WorkerCanStep)
    /\ []<>(wpc = "recv")

\* the two jobs of a body, of different pairs, have both been received and
\* logged, the request is answered and the worker waits for the next job
C27_Witness ==
    /\ now = 2
    /\ wpc = "recv"
    /\ outstanding = <<>>
    /\ hpc[1] = "done"
    /\ delivered = 2
    /\ Cardinality({<<r.user_id, r.post_id>> : r \in dm_logs}) = 2

-----------------------------------------------------------------------------
(* C28 *)

\* C28: whatever MaxRetries loadConfig produced, a row written with status
\* sent belongs to a job for which some sendDM call returned success, and a
\* row written with status failed belongs to a job for which at least one
\* call was made and the last one (hence every one) failed.  Violated: with a
\* negative MaxRetries the loop of sendDMWithRetry is not entered, nil is
\* returned, and logDM writes status sent for a job that was never sent.
C28_StatusReflectsAttempts ==
    [][ (wpc = "log" /\ wpc' = "recv" /\ dm_logs' # dm_logs)
          => LET r == RowOf(dm_logs', job.UserID, job.PostID)
             IN  /\ r.status = "sent" => (nAttempts >= 1 /\ ~Failed(lastResp))
                 /\ r.status = "failed" => (nAttempts >= 1 /\ Failed(lastResp))
      ]_vars

-----------------------------------------------------------------------------
(* C29 *)

\* statements that have written the rows of the table: retry_count + 1 for
\* each row
RECURSIVE TotalWrites(_)
TotalWrites(table) ==
    IF table = {} THEN 0
    ELSE LET r == CHOOSE x \in table : TRUE
         IN  r.retry_count + 1 + TotalWrites(table \ {r})

\* the worker ends a job of a pair whose stored retry_count, if any, is n
EndsJobAt(n) ==
    /\ wpc = "log" /\ wpc' = "recv"
    /\ IF HasRow(job.UserID, job.PostID)
       THEN RowOf(dm_logs, job.UserID, job.PostID).retry_count = n
       ELSE n = -1

\* C29 as stated: the stored retry_count of a pair is the number of its
\* completed jobs minus one: every completed job leaves the pair's row with
\* a count one higher than before, 0 for the first.  Violated by the code
\* through the defect of C12: a job whose logDM statement fails is completed
\* and leaves the table as it was.
C29_CountsCompletedJobs ==
    [][ \A n \in -1..MaxChanges :
            EndsJobAt(n)
               => /\ CountRows(dm_logs', job.UserID, job.PostID) = 1
                  /\ RowOf(dm_logs', job.UserID, job.PostID).retry_count = n + 1
      ]_vars

\* C29, the part the code keeps: the stored retry_count of a pair is the
\* number of logDM statements executed for the pair minus one: a job whose
\* statement executes leaves the count one higher, 0 for the first, whatever the
\* number of sendDM calls made for it (none to MaxRetries + 1); a job whose
\* statement fails leaves the table as it was; no other step changes a row;
\* and the writes the rows account for never exceed the jobs completed.
C29_CountsExecutedWrites ==
    /\ [](TotalWrites(dm_logs) <= now)
    /\ [][ /\ \A n \in -1..MaxChanges : \A a \in 0..(DefaultMaxRetries + 1) :
                (EndsJobAt(n) /\ nAttempts = a /\ dm_logs' # dm_logs)
                   => /\ CountRows(dm_logs', job.UserID, job.PostID) = 1
                      /\ RowOf(dm_logs', job.UserID, job.PostID).retry_count = n + 1
                      /\ TotalWrites(dm_logs') = TotalWrites(dm_logs) + 1
           /\ dm_logs' # dm_logs => (wpc = "log" /\ wpc' = "recv")
         ]_vars

\* under MaxRetries = 3 two jobs of one pair were completed, the second after
\* four failed calls: the pair's row has retry_count 1
C29_Witness ==
    /\ config.MaxRetries = 3
    /\ now = 2
    /\ wpc = "recv"
    /\ outstanding = <<>>
    /\ \E r \in dm_logs :
          r.retry_count = 1 /\ r.status = "failed" /\ r.error_message = ErrTransport

-----------------------------------------------------------------------------
(* C30 *)

\* C30: isDuplicate answers false whenever its query fails, whatever dm_logs
\* holds; a matched event whose query fails goes on to the channel send with
\* its comment, also when the pair's row exists, and the send appends its
\* job; the failure changes nothing in the answer to the request, which is
\* 200 with an empty body as for every request.
C30_FailedQueryAdmits ==
    /\ [](/\ \A p \in Pairs : ~isDuplicate(dm_logs, p[1], p[2], TRUE)
          /\ \A h \in Requests : response[h] \in {NoAnswer, Answer(200, "")})
    /\ [][ \A h \in Requests :
              /\ (EndsDedup(h) /\ queryFailed'[h])
                    => (/\ hpc'[h] = "send"
                        /\ cur'[h] = cur[h]
                        /\ verdict'[h] # "duplicate"
                        /\ response' = response)
              /\ (hpc[h] = "send" /\ hpc'[h] # "send" /\ queryFailed[h])
                    => (/\ dmQueue' = Append(dmQueue, NewJob(cur[h].value))
                        /\ verdict'[h] = "queued"
                        /\ response' = response)
         ]_vars

\* the row of a pair is in dm_logs, the query for an event of that pair
\* failed, and the event's job is in the channel
C30_Witness ==
    \E h \in Requests :
        /\ verdict[h] = "queued"
        /\ queryFailed[h]
        /\ HasRow(cur[h].value.From, cur[h].value.MediaID)
        /\ Len(dmQueue) = 1
        /\ dmQueue[1] = NewJob(cur[h].value)

-----------------------------------------------------------------------------
(* C31 *)

\* request h reads the next change of its body in this step
ReadsChange(h) == hpc[h] = "loop" /\ left'[h] = left[h] - 1

\* processComment was called for the change request h has just read
Processed(h) == verdict'[h] \in {"nomatch", "matched"}

\* C31 as stated: processComment is called for a change exactly when its
\* field is "comments".
C31_EventPerCommentsField ==
    [][ \A h \in Requests :
           ReadsChange(h) => (Processed(h) <=> cur'[h].field = "comments")
      ]_vars

\* C31 amended: processComment is called once for a change exactly when its
\* field is "comments" and its value is a JSON object; every other change is
\* passed over in a step that leaves the channel and dm_logs as they are; the
\* changes are read one at a time, the next one only after the handling of
\* the one before is over, and all of them before the answer; a job sent to
\* the channel is the job of the change read last.
C31_EventPerCommentObject ==
    /\ [](\A h \in Requests :
            /\ hpc[h] \in {"dedup", "send"}
                  => (cur[h].field = "comments" /\ cur[h].object)
            /\ hpc[h] = "done" => left[h] = 0)
    /\ [][ \A h \in Requests :
              /\ ReadsChange(h)
                    => /\ Processed(h) <=> (cur'[h].field = "comments" /\ cur'[h].object)
                       /\ ~Processed(h)
                             => (/\ verdict'[h] = "skipped"
                                 /\ hpc'[h] = "loop"
                                 /\ dmQueue' = dmQueue
                                 /\ outstanding' = outstanding
                                 /\ dm_logs' = dm_logs)
              /\ cur'[h] # cur[h] => (ReadsChange(h) \/ hpc'[h] = "done")
              /\ (hpc[h] = "send" /\ hpc'[h] # "send")
                    => dmQueue' = Append(dmQueue, NewJob(cur[h].value))
         ]_vars

\* on a database with a row, a body of one change, of field "comments" with a
\* value that is not an object, was read to its end: nothing is in the
\* channel and the row is as it was
C31_Witness ==
    /\ delivered = 1
    /\ hpc[1] = "loop" /\ left[1] = 0
    /\ cur[1].field = "comments" /\ ~cur[1].object
    /\ verdict[1] = "skipped"
    /\ dmQueue = <<>> /\ outstanding = <<>>
    /\ dm_logs \in PriorTables /\ dm_logs # {}

-----------------------------------------------------------------------------
(* C32 *)

\* C32: on every route, a verification request is answered 200 (with the
\* challenge) only if the supplied token equals the configured verify token.
C32_ChallengeOnlyForConfiguredToken ==
    (Answered /\ handshake.answer.status = 200) => handshake.token = verifyToken

\* C32, the part about /webhook: webhookGETHandler answers 200 only to the
\* configured token, and then with the challenge as body.
C32_WebhookRouteOnlyForConfiguredToken ==
    (Answered /\ handshake.route = "/webhook" /\ handshake.answer.status = 200)
        => /\ handshake.token = verifyToken
           /\ handshake.answer.body = handshake.challenge

\* the per-account route answered 200 with the challenge to a token that is
\* not the configured one
C32_Diverges ==
    /\ handshake.route = "/api/accounts/:account_id/webhook/comments"
    /\ verifyToken = "secret"
    /\ handshake.token = "DDYTDTYF"
    /\ handshake.answer = Answer(200, "abc123")

-----------------------------------------------------------------------------
(* C33 *)

\* request h takes a step of its handler
HandlerSteps(h) ==
    \/ hpc'[h] # hpc[h]
    \/ left'[h] # left[h]
    \/ cur'[h] # cur[h]
    \/ verdict'[h] # verdict[h]
    \/ response'[h] # response[h]

\* C33: the rows of dm_logs change only in the step in which the worker
\* executes logDM; every step of a request handler (reading the body, the
\* keyword match, the duplicate check, the channel send, the drop of a
\* duplicate, the answer) leaves every row as it is, and the step that ends
\* the duplicate check leaves the channel as it is.
C33_OnlyWorkerWritesLog ==
    [][ /\ dm_logs' # dm_logs
              => (/\ wpc = "log" /\ wpc' = "recv"
                  /\ \A h \in Requests : ~HandlerSteps(h))
        /\ \A h \in Requests :
              /\ HandlerSteps(h) => (dm_logs' = dm_logs /\ now' = now)
              /\ EndsDedup(h) => (dmQueue' = dmQueue /\ outstanding' = outstanding)
      ]_vars

\* a matched comment of a pair whose row exists was dropped as a duplicate:
\* the row is the one the process started with and the channel is empty
C33_Witness ==
    /\ verdict[1] = "duplicate"
    /\ ~queryFailed[1]
    /\ HasRow(cur[1].value.From, cur[1].value.MediaID)
    /\ dm_logs \in PriorTables
    /\ dmQueue = <<>> /\ outstanding = <<>>

-----------------------------------------------------------------------------
(* C34 *)

\* the configured keyword list has an empty element
HasEmptyKeyword ==
    \E i \in 1..Len(config.Keywords) : config.Keywords[i] = <<>>

\* C34: loadConfig leaves an empty keyword in the list when KEYWORDS is unset
\* and when it ends with a comma; with an empty keyword in the list the
\* keyword loop matches every text, the empty one included, and every comment
\* read goes on to the duplicate check.
C34_EmptyKeywordMatchesAll ==
    /\ [](/\ loadConfig(<<>>, <<"1">>).Keywords = << <<>> >>
          /\ loadConfig(<<"d", "m", ",">>, <<"1">>).Keywords = << <<"d", "m">>, <<>> >>
          /\ HasEmptyKeyword
                => \A c \in Comments : Match(c.Text, config.Keywords))
    /\ [][ \A h \in Requests :
              (HasEmptyKeyword /\ ReadsComment(h))
                 => (verdict'[h] = "matched" /\ hpc'[h] = "dedup")
         ]_vars

\* with KEYWORDS unset, the comment with the empty text is at the duplicate
\* check
C34_Witness ==
    /\ config.Keywords = << <<>> >>
    /\ hpc[1] = "dedup"
    /\ verdict[1] = "matched"
    /\ cur[1].value.ID = "c4" /\ cur[1].value.Text = <<>>

-----------------------------------------------------------------------------
(* C35 *)

\* the calls of key k that returned true at a time in the window (a, a + one
\* minute]
GrantedIn(k, a) ==
    Cardinality({i \in 1..Len(granted[k]) :
                    a < granted[k][i] /\ granted[k][i] <= a + MinuteTicks})

\* Allow is called in this step
Calls == lastAllow'.n = lastAllow.n + 1

\* C35: over every sequence of calls, in every window of one minute (open at
\* its start, closed at its end) at most RateLimit calls with one key have
\* returned true; a call returns true exactly when fewer than RateLimit calls
\* with its own key returned true in the minute up to it; a call that returns
\* false leaves the limiter as it is; a call changes nothing that is kept for
\* another key.
C35_AtMostFivePerMinutePerKey ==
    /\ [](\A k \in Users :
            \A a \in (0 - MinuteTicks)..(MaxCalls * MinuteTicks) :
               GrantedIn(k, a) <= RateLimit)
    /\ [][ Calls =>
              LET k == lastAllow'.key
              IN  /\ lastAllow'.ok <=> (GrantedIn(k, clock' - MinuteTicks) < RateLimit)
                  /\ ~lastAllow'.ok => (limiter' = limiter /\ granted' = granted)
                  /\ lastAllow'.ok
                        => granted'[k] = Append(granted[k], clock')
                  /\ \A j \in Users \ {k} :
                        /\ limiter'.requests[j] = limiter.requests[j]
                        /\ granted'[j] = granted[j]
         ]_vars

\* five calls with "u1" returned true within a minute, one call with "u2"
\* returned true, and the seventh call, with "u1" in the same minute, has
\* returned false
C35_Witness ==
    /\ lastAllow = [key |-> "u1", ok |-> FALSE, n |-> 7]
    /\ Len(granted["u1"]) = RateLimit
    /\ Len(granted["u2"]) = 1
    /\ clock - granted["u1"][1] < MinuteTicks
====
